---- MODULE Spec2Model ----
(***************************************************************************)
(* A model of ApiClient (src/src/client.ts): the settings snapshot, the    *)
(* settings generation counter, the cached login promise, the listener     *)
(* list, and the promise chains of maybeLogin, maybeLogout and the proxied *)
(* calls; and of resolveQuickConnectId (src/src/quickconnect): the control  *)
(* hosts tried in series, the candidates generated from a server info and  *)
(* probed in series.  Every promise callback is one atomic step            *)
(* (single-threaded cooperative scheduling); network responses are chosen  *)
(* by the environment.                                                     *)
(***************************************************************************)
EXTENDS Integers, Sequences, FiniteSets, TLC

\* ---------------------------------------------------------------- bounds
NumCallers == 2
MaxWork == 5
MaxSettingsVersion == 2
MaxSubscriptions == 2
MaxCalls == 3

Callers == 1..NumCallers
Jobs == 1..(MaxWork - 1)
Listeners == {"l1", "l2"}

\* ------------------------------------------------------- program constants
NO_PERMISSIONS_ERROR_CODE == 105
SESSION_TIMEOUT_ERROR_CODE == 106

SETTING_NAME_KEYS == {"baseUrl", "account", "passwd", "session"}

\* ----------------------------------------------------------------- values
Undefined == "undefined"

\* ApiClientSettings objects the callers pass; "" is an empty string, and
\* Undefined an absent field.
ApiClientSettings ==
  { [baseUrl |-> "u1", account |-> "a1", passwd |-> "p1", session |-> "DownloadStation"],
    [baseUrl |-> "u2", account |-> "a2", passwd |-> "p1", session |-> "DownloadStation"],
    [baseUrl |-> "u2", account |-> Undefined, passwd |-> "p1", session |-> "DownloadStation"],
    [baseUrl |-> "u1", account |-> "a1", passwd |-> "", session |-> "DownloadStation"] }

\* The null reference, which updateSettings tests for.
NullSettings ==
  [baseUrl |-> "null", account |-> "null", passwd |-> "null", session |-> "null"]

\* Remote error codes the device answers with, and the raw transport errors
\* a request rejects with.
ErrorCodes == {NO_PERMISSIONS_ERROR_CODE, SESSION_TIMEOUT_ERROR_CODE, 400}
\* What a request rejects with: an error object with the status of its
\* response (0 when it has no response) and its message, or null.
AxiosError(status, message) == [isNull |-> FALSE, status |-> status, message |-> message]
NullError == [isNull |-> TRUE, status |-> 0, message |-> Undefined]
NoError == AxiosError(0, "")

RejectErrors == {AxiosError(0, "Network Error")}

\* maxVersion values Info.Query advertises for SYNO.API.Auth.
AdvertisedVersions == {3, 4}

\* What a promise settles with, or what an operation returned.
Res(t, code, sid, legacy, err, url) ==
  [t |-> t, code |-> code, sid |-> sid, legacy |-> legacy, err |-> err, url |-> url,
   type |-> ""]

NoResult == Res("none", 0, 0, FALSE, NoError, "")
Success(sid, legacy, url) == Res("success", 0, sid, legacy, NoError, url)
Failure(code) == Res("failure", code, 0, FALSE, NoError, "")
Rejected(err) == Res("rejected", 0, 0, FALSE, err, "")
ConnFailure(type, err) ==
  [Res("connection-failure", 0, 0, FALSE, err, "") EXCEPT !.type = type]
NotLoggedIn == Res("not-logged-in", 0, 0, FALSE, NoError, "")

NoPromise == 0

VARIABLES
  settings,                  \* this.settings
  settingsVersion,           \* this.settingsVersion
  sidPromise,                \* this.sidPromise: NoPromise or the login it holds
  onSettingsChangeListeners, \* this.onSettingsChangeListeners
  subscriptions,             \* the disposer closures: listener, isSubscribed
  logins,                    \* every login promise chain started so far
  logouts,                   \* the maybeLogout chain that took each login
  ops,                       \* the public operation each caller is running
  clears,                    \* history: times a cached login was dropped
  logoutAttempts,            \* history: maybeLogout calls made by updateSettings
  calls,                     \* history: public operations called so far
  notified,                  \* history: times each listener was called
  lastOp,                    \* history: the updateSettings call just made
  resolution,                \* a resolveQuickConnectId call: its promise chain
  attempts,                  \* history: what that call queried and probed
  seriesCall,                \* a call of series: its values and its promise
  rejection                  \* a promise with catch(handleRejection) chained on

clientVars == <<settings, settingsVersion, sidPromise, onSettingsChangeListeners,
                subscriptions, logins, logouts, ops, clears, logoutAttempts,
                calls, notified, lastOp>>

resolverVars == <<resolution, attempts>>

functionVars == <<seriesCall, rejection>>

vars == <<clientVars, resolverVars, functionVars>>

listenerVars == <<onSettingsChangeListeners, subscriptions, notified>>

\* The client and its promise chains as one value, which the handlers map to
\* the value after they ran.
State ==
  [settings |-> settings, settingsVersion |-> settingsVersion,
   sidPromise |-> sidPromise, logins |-> logins, logouts |-> logouts,
   ops |-> ops, clears |-> clears, logoutAttempts |-> logoutAttempts]

\* ------------------------------------------------------ client.ts helpers
\* /timeout of \d+ms exceeded/.test(message), for the messages of the model.
TIMEOUT_MESSAGE_REGEX(message) ==
  message \in {"timeout of 60000ms exceeded", "timeout of 5ms exceeded",
               "Error: timeout of 5ms exceeded (retry)"}

\* Variant: the message is tested before the status.
handleRejectionMessageFirst(error) ==
  IF ~error.isNull /\ error.message = "Network Error"
    THEN ConnFailure("probable-wrong-url-or-no-connection-or-cert-error", error)
  ELSE IF ~error.isNull /\ error.status = 400
    THEN ConnFailure("probable-wrong-protocol", error)
  ELSE IF ~error.isNull /\ TIMEOUT_MESSAGE_REGEX(error.message)
    THEN ConnFailure("timeout", error)
  ELSE ConnFailure("unknown", error)

handleRejection(error) ==
  IF ~error.isNull /\ error.status = 400
    THEN ConnFailure("probable-wrong-protocol", error)
  ELSE IF ~error.isNull /\ error.message = "Network Error"
    THEN ConnFailure("probable-wrong-url-or-no-connection-or-cert-error", error)
  ELSE IF ~error.isNull /\ TIMEOUT_MESSAGE_REGEX(error.message)
    THEN ConnFailure("timeout", error)
  ELSE ConnFailure("unknown", error)

isConnectionFailure(result) == result.t = "connection-failure"

\* Variant: the rejection handler is missing.
CatchNothing(out) == out

\* promise.catch(handleRejection) applied to what the promise settled with.
CatchRejection(out) ==
  IF out.t = "rejected" THEN handleRejection(out.err) ELSE out

\* Variant: an empty string counts as configured.
isFullyConfiguredUnsetOnly(st) ==
  \A k \in SETTING_NAME_KEYS : st[k] # Undefined

isFullyConfigured(st) ==
  \A k \in SETTING_NAME_KEYS : st[k] # Undefined /\ st[k] # ""

\* A login chain: the settings it captured (cachedSettings), where it
\* stands, the Auth version it chose, what it settled with, and (history) the
\* generation it was started under, whether maybeLogin has returned it from
\* the cache after it had settled, and the maxVersion Info.Query delivered
\* (0: its response was a failure), while Auth.Login is in flight.
NewLogin(st, generation) ==
  [settings |-> st, stage |-> "query", version |-> 0, out |-> NoResult,
   generation |-> generation, reused |-> FALSE, advertised |-> 0]

\* The logout chain on a login: where it stands, the base URL and session
\* name maybeLogout read, the session id Auth.Logout was called with, and the
\* caller that holds its promise (0: updateSettings, which drops it).
NoLogout ==
  [stage |-> "none", baseUrl |-> "", session |-> "", sid |-> 0, owner |-> 0]

IdleOp ==
  [kind |-> "none", pc |-> "idle", versionAtInit |-> 0, shouldRetry |-> TRUE,
   job |-> 0, callSid |-> 0, callUrl |-> "", result |-> NoResult,
   \* history of the invocation: what its last callback received, its
   \* session-recovery retries, its stale-settings restarts, its calls of
   \* fn (in all, and since the retry), the login its retry started, the
   \* generation it was called under (while it is in progress), and whether
   \* the generation had advanced past versionAtInit when it returned
   seen |-> NoResult, retries |-> 0, restarts |-> 0, fnCalls |-> 0,
   afterRetry |-> 0, freshJob |-> 0, startVersion |-> 0,
   returnedStale |-> FALSE]

Cleared(sp) == IF sp # NoPromise THEN 1 ELSE 0

\* Variant: the cached promise is not consulted.
maybeLoginUncached(S) ==
  IF ~isFullyConfigured(S.settings)
    THEN [state |-> S, job |-> 0]
    ELSE [state |-> [S EXCEPT !.sidPromise = Len(S.logins) + 1,
                              !.logins = Append(@, NewLogin(S.settings, S.settingsVersion))],
          job |-> Len(S.logins) + 1]

\* Variant: the login that was started is not cached.
maybeLoginNotCached(S) ==
  IF S.sidPromise = NoPromise
    THEN IF ~isFullyConfigured(S.settings)
           THEN [state |-> S, job |-> 0]
           ELSE [state |-> [S EXCEPT !.logins = Append(@, NewLogin(S.settings, S.settingsVersion))],
                 job |-> Len(S.logins) + 1]
    ELSE [state |-> S, job |-> S.sidPromise]

\* Variant: a cached login that ended without a session is replaced.
maybeLoginDropsFailed(S) ==
  IF S.sidPromise = NoPromise
       \/ (S.logins[S.sidPromise].stage = "done"
             /\ S.logins[S.sidPromise].out.t # "success")
    THEN IF ~isFullyConfigured(S.settings)
           THEN [state |-> S, job |-> 0]
           ELSE [state |-> [S EXCEPT !.sidPromise = Len(S.logins) + 1,
                                     !.logins = Append(@, NewLogin(S.settings, S.settingsVersion))],
                 job |-> Len(S.logins) + 1]
    ELSE [state |-> S, job |-> S.sidPromise]

\* maybeLogin up to the promise it returns: job 0 is the already resolved
\* missing-config promise, any other job the login whose outcome it maps.
maybeLogin(S) ==
  IF S.sidPromise = NoPromise
    THEN IF ~isFullyConfigured(S.settings)
           THEN [state |-> S, job |-> 0]
           ELSE [state |-> [S EXCEPT !.sidPromise = Len(S.logins) + 1,
                                     !.logins = Append(@, NewLogin(S.settings, S.settingsVersion))],
                 job |-> Len(S.logins) + 1]
    ELSE [state |-> [S EXCEPT !.logins[S.sidPromise].reused =
                                @ \/ S.logins[S.sidPromise].stage = "done"],
          job |-> S.sidPromise]

\* What the promise returned by maybeLogin resolves with.
LoginOutcome(lg, job) ==
  IF job = 0 THEN ConnFailure("missing-config", NoError) ELSE CatchRejection(lg[job].out)

LoginSettled(lg, job) == IF job = 0 THEN TRUE ELSE lg[job].stage = "done"

\* Variant: the configuration is tested before the stashed promise.
maybeLogoutConfigFirst(S, owner) ==
  LET stashedSidPromise == S.sidPromise
      T == [S EXCEPT !.sidPromise = NoPromise,
                     !.clears = @ + Cleared(stashedSidPromise)]
  IN
  IF ~isFullyConfigured(S.settings)
    THEN [state |-> T, ret |-> ConnFailure("missing-config", NoError)]
  ELSE IF stashedSidPromise # NoPromise
    THEN [state |-> [T EXCEPT !.logouts[stashedSidPromise] =
                       [stage |-> "wait", baseUrl |-> S.settings.baseUrl,
                        session |-> S.settings.session, sid |-> 0, owner |-> owner]],
          ret |-> NoResult]
    ELSE [state |-> T, ret |-> NotLoggedIn]

\* Variant: the configuration is not tested.
maybeLogoutAlwaysWaits(S, owner) ==
  LET stashedSidPromise == S.sidPromise
      T == [S EXCEPT !.sidPromise = NoPromise,
                     !.clears = @ + Cleared(stashedSidPromise)]
  IN
  IF stashedSidPromise # NoPromise
    THEN [state |-> [T EXCEPT !.logouts[stashedSidPromise] =
                       [stage |-> "wait", baseUrl |-> S.settings.baseUrl,
                        session |-> S.settings.session, sid |-> 0, owner |-> owner]],
          ret |-> NoResult]
    ELSE [state |-> T, ret |-> NotLoggedIn]

\* maybeLogout up to the promise it returns: ret is NoResult while that
\* promise is pending on the stashed login.
maybeLogout(S, owner) ==
  LET stashedSidPromise == S.sidPromise
      T == [S EXCEPT !.sidPromise = NoPromise,
                     !.clears = @ + Cleared(stashedSidPromise)]
  IN
  IF stashedSidPromise # NoPromise
    THEN IF ~isFullyConfigured(S.settings)
           THEN [state |-> T, ret |-> ConnFailure("missing-config", NoError)]
           ELSE [state |-> [T EXCEPT !.logouts[stashedSidPromise] =
                              [stage |-> "wait", baseUrl |-> S.settings.baseUrl,
                               session |-> S.settings.session, sid |-> 0, owner |-> owner]],
                 ret |-> NoResult]
    ELSE [state |-> T, ret |-> NotLoggedIn]

\* --------------------------------------------------------- updateSettings
SettingsDiffer(s, cur) == \E k \in SETTING_NAME_KEYS : s[k] # cur[k]

\* Variant: the fields are not compared.
updateSettingsReturnsNonNull(S, s) == s # NullSettings

updateSettingsReturns(S, s) ==
  s # NullSettings /\ (S.settings = NullSettings \/ SettingsDiffer(s, S.settings))

\* Variant: the generation advances once per differing field.
updateSettingsPerField(S, s) ==
  IF updateSettingsReturns(S, s)
    THEN maybeLogout([S EXCEPT !.settingsVersion =
                                 @ + Cardinality({k \in SETTING_NAME_KEYS :
                                                    s[k] # S.settings[k]}),
                               !.settings = s,
                               !.logoutAttempts = @ + 1], 0).state
    ELSE S

\* Variant: the cached login is left in place and no logout is attempted.
updateSettingsNoLogout(S, s) ==
  IF updateSettingsReturns(S, s)
    THEN [S EXCEPT !.settingsVersion = @ + 1, !.settings = s]
    ELSE S

\* Variant: the logout is chained on the cached login, which stays cached.
updateSettingsKeepsLogin(S, s) ==
  IF updateSettingsReturns(S, s)
    THEN [maybeLogout([S EXCEPT !.settingsVersion = @ + 1,
                                !.settings = s,
                                !.logoutAttempts = @ + 1], 0).state
            EXCEPT !.sidPromise = S.sidPromise]
    ELSE S

\* Variant: the logout is attempted before the settings are replaced.
updateSettingsLogoutFirst(S, s) ==
  IF updateSettingsReturns(S, s)
    THEN [maybeLogout([S EXCEPT !.logoutAttempts = @ + 1], 0).state
            EXCEPT !.settingsVersion = @ + 1, !.settings = s]
    ELSE S

updateSettings(S, s) ==
  IF updateSettingsReturns(S, s)
    THEN maybeLogout([S EXCEPT !.settingsVersion = @ + 1,
                               !.settings = s,
                               !.logoutAttempts = @ + 1], 0).state
    ELSE S

\* ------------------------------------------------------------ ApiClient.proxy
\* A public operation's promise resolves with result.
Return(S, c, result) ==
  [S EXCEPT !.ops[c] = [@ EXCEPT !.pc = "done", !.result = result,
                                 !.versionAtInit = 0, !.shouldRetry = TRUE,
                                 !.job = 0, !.callSid = 0, !.callUrl = "",
                                 !.startVersion = 0,
                                 !.returnedStale =
                                   /\ S.ops[c].kind = "proxy"
                                   /\ S.ops[c].versionAtInit # S.settingsVersion]]

\* Variant: every instance may retry routine failures.
wrappedFunctionAlwaysRetries(S, c, shouldRetryRoutineFailures) ==
  LET r == maybeLogin(S) IN
  [r.state EXCEPT !.ops[c] = [@ EXCEPT !.pc = "login",
                                       !.versionAtInit = S.settingsVersion,
                                       !.shouldRetry = TRUE,
                                       !.job = r.job,
                                       !.callSid = 0, !.callUrl = "",
                                       !.freshJob =
                                         IF shouldRetryRoutineFailures
                                           THEN @ ELSE r.job]]

\* wrappedFunction up to the promise chain it builds on maybeLogin().
wrappedFunction(S, c, shouldRetryRoutineFailures) ==
  LET r == maybeLogin(S) IN
  [r.state EXCEPT !.ops[c] = [@ EXCEPT !.pc = "login",
                                       !.versionAtInit = S.settingsVersion,
                                       !.shouldRetry = shouldRetryRoutineFailures,
                                       !.job = r.job,
                                       !.callSid = 0, !.callUrl = "",
                                       !.freshJob =
                                         IF shouldRetryRoutineFailures
                                           THEN @ ELSE r.job]]

\* Variant: the generation always counts as stale.
settingsStillValidNever(S, c) == FALSE

settingsStillValid(S, c) == S.settingsVersion = S.ops[c].versionAtInit

unconditionallyRetry(S, c) ==
  wrappedFunction([S EXCEPT !.ops[c].restarts = @ + 1], c, TRUE)

\* Variant: the retry may itself retry.
retryIfAllowedAgain(S, c, response) ==
  IF /\ S.ops[c].shouldRetry
     /\ (response.code = SESSION_TIMEOUT_ERROR_CODE
         \/ response.code = NO_PERMISSIONS_ERROR_CODE)
    THEN wrappedFunction([S EXCEPT !.sidPromise = NoPromise,
                                   !.clears = @ + Cleared(S.sidPromise),
                                   !.ops[c].retries = @ + 1], c, TRUE)
    ELSE Return(S, c, response)

\* Variant: the retry keeps the cached session.
retryIfAllowedKeepSession(S, c, response) ==
  IF /\ S.ops[c].shouldRetry
     /\ (response.code = SESSION_TIMEOUT_ERROR_CODE
         \/ response.code = NO_PERMISSIONS_ERROR_CODE)
    THEN wrappedFunction([S EXCEPT !.ops[c].retries = @ + 1], c, FALSE)
    ELSE Return(S, c, response)

\* Variant: every remote failure is retried.
retryIfAllowedAnyCode(S, c, response) ==
  IF S.ops[c].shouldRetry
    THEN wrappedFunction([S EXCEPT !.sidPromise = NoPromise,
                                   !.clears = @ + Cleared(S.sidPromise),
                                   !.ops[c].retries = @ + 1], c, FALSE)
    ELSE Return(S, c, response)

\* Variant: the retry clears the cache only of the login the failed attempt
\* used.
retryIfAllowedClearsOwn(S, c, response) ==
  LET used == IF S.ops[c].pc = "call" THEN S.ops[c].callSid ELSE S.ops[c].job
      mine == S.sidPromise = used
  IN
  IF /\ S.ops[c].shouldRetry
     /\ (response.code = SESSION_TIMEOUT_ERROR_CODE
         \/ response.code = NO_PERMISSIONS_ERROR_CODE)
    THEN wrappedFunction([S EXCEPT !.sidPromise = IF mine THEN NoPromise ELSE @,
                                   !.clears = IF mine THEN @ + Cleared(S.sidPromise) ELSE @,
                                   !.ops[c].retries = @ + 1], c, FALSE)
    ELSE Return(S, c, response)

retryIfAllowed(S, c, response) ==
  IF /\ S.ops[c].shouldRetry
     /\ (response.code = SESSION_TIMEOUT_ERROR_CODE
         \/ response.code = NO_PERMISSIONS_ERROR_CODE)
    THEN wrappedFunction([S EXCEPT !.sidPromise = NoPromise,
                                   !.clears = @ + Cleared(S.sidPromise),
                                   !.ops[c].retries = @ + 1], c, FALSE)
    ELSE Return(S, c, response)

\* Variant: the generation is not compared after maybeLogin().
loginThenUnchecked(S0, c, response) ==
  LET S == [S0 EXCEPT !.ops[c].seen = response] IN
  IF isConnectionFailure(response)
    THEN Return(S, c, response)
  ELSE IF response.t = "success"
    THEN [S EXCEPT !.ops[c] =
            [@ EXCEPT !.pc = "call",
                      !.job = 0,
                      !.callUrl = S.settings.baseUrl,
                      !.callSid = response.sid,
                      !.fnCalls = @ + 1,
                      !.afterRetry = IF S.ops[c].shouldRetry
                                       THEN @ ELSE @ + 1]]
    ELSE retryIfAllowed(S, c, response)

\* The callback chained on maybeLogin(), run with what that promise resolved
\* with; calling fn leaves the invocation waiting for the wrapped call.
loginThen(S0, c, response) ==
  LET S == [S0 EXCEPT !.ops[c].seen = response] IN
  IF settingsStillValid(S, c)
    THEN IF isConnectionFailure(response)
           THEN Return(S, c, response)
         ELSE IF response.t = "success"
           THEN [S EXCEPT !.ops[c] =
                   [@ EXCEPT !.pc = "call",
                             !.job = 0,
                             !.callUrl = S.settings.baseUrl,
                             !.callSid = response.sid,
                             !.fnCalls = @ + 1,
                             !.afterRetry = IF S.ops[c].shouldRetry
                                              THEN @ ELSE @ + 1]]
         ELSE retryIfAllowed(S, c, response)
    ELSE unconditionallyRetry(S, c)

\* Variant: the generation is not compared after the wrapped call.
callThenUnchecked(S0, c, response) ==
  LET S == [S0 EXCEPT !.ops[c].seen = response] IN
  IF response.t = "rejected"
    THEN Return(S, c, handleRejection(response.err))
  ELSE IF isConnectionFailure(response) \/ response.t = "success"
    THEN Return(S, c, response)
    ELSE retryIfAllowed(S, c, response)

\* Variant: the generation is compared before the rejection is handled.
callThenRecheckFirst(S0, c, response) ==
  LET S == [S0 EXCEPT !.ops[c].seen = response] IN
  IF settingsStillValid(S, c)
    THEN IF response.t = "rejected"
           THEN Return(S, c, handleRejection(response.err))
         ELSE IF isConnectionFailure(response) \/ response.t = "success"
           THEN Return(S, c, response)
           ELSE retryIfAllowed(S, c, response)
    ELSE unconditionallyRetry(S, c)

\* The callback chained on fn(...), or the outer catch when fn rejected.
callThen(S0, c, response) ==
  LET S == [S0 EXCEPT !.ops[c].seen = response] IN
  IF response.t = "rejected"
    THEN Return(S, c, handleRejection(response.err))
  ELSE IF settingsStillValid(S, c)
    THEN IF isConnectionFailure(response) \/ response.t = "success"
           THEN Return(S, c, response)
           ELSE retryIfAllowed(S, c, response)
    ELSE unconditionallyRetry(S, c)

\* ------------------------------------------- the login chain (maybeLogin)
\* Variant: the success of the capability query is not tested.
infoQueryThenAnyResponse(S, j, apiVersions) ==
  LET authApiVersion == IF apiVersions.maxVersion >= 4 THEN 4 ELSE 1
  IN [S EXCEPT !.logins[j] = [@ EXCEPT !.stage = "login",
                                       !.version = authApiVersion,
                                       !.advertised =
                                         IF apiVersions.success
                                           THEN apiVersions.maxVersion ELSE 0]]

\* The callback chained on Info.Query: picks the login protocol version and
\* issues Auth.Login.
infoQueryThen(S, j, apiVersions) ==
  LET authApiVersion == IF apiVersions.success /\ apiVersions.maxVersion >= 4
                          THEN 4 ELSE 1
  IN [S EXCEPT !.logins[j] = [@ EXCEPT !.stage = "login",
                                       !.version = authApiVersion,
                                       !.advertised =
                                         IF apiVersions.success
                                           THEN apiVersions.maxVersion ELSE 0]]

\* The callback chained on Auth.Login; the session id the device issues is
\* fresh, so the login's own index stands for it.
authLoginThen(S, j, response) ==
  [S EXCEPT !.logins[j] =
     [@ EXCEPT !.stage = "done", !.version = 0, !.advertised = 0,
               !.out = IF response.t = "success"
                         THEN Success(j, S.logins[j].version = 1, "")
                         ELSE response]]

loginRejects(S, j, error) ==
  [S EXCEPT !.logins[j] = [@ EXCEPT !.stage = "done", !.version = 0,
                                    !.advertised = 0,
                                    !.out = Rejected(error)]]

\* ------------------------------------------ the logout chain (maybeLogout)
\* Variant: the end of a logout chain empties the cache.
logoutReturnsClears(S, j, result) ==
  LET owner == S.logouts[j].owner
      T == [S EXCEPT !.logouts[j] = [NoLogout EXCEPT !.stage = "done"],
                     !.sidPromise = NoPromise]
  IN IF owner = 0 THEN T ELSE [T EXCEPT !.ops[owner].pc = "done",
                                        !.ops[owner].result = result]

\* A maybeLogout chain ends: its promise resolves for whoever holds it.
logoutReturns(S, j, result) ==
  LET owner == S.logouts[j].owner
      T == [S EXCEPT !.logouts[j] = [NoLogout EXCEPT !.stage = "done"]]
  IN IF owner = 0 THEN T ELSE Return(T, owner, result)

\* The callback maybeLogout chained on the stashed login.
stashedThen(S, j) ==
  LET out == S.logins[j].out IN
  IF out.t = "success"
    THEN [S EXCEPT !.logouts[j].stage = "net", !.logouts[j].sid = out.sid]
    ELSE logoutReturns(S, j, CatchRejection(out))

\* --------------------------------------------------------------- stepping
\* A settled login that neither the cache nor any promise chain refers to
\* can no longer be observed; its record is dropped.
Referenced(S, j) ==
  \/ S.sidPromise = j
  \/ \E c \in Callers : S.ops[c].pc = "login" /\ S.ops[c].job = j
  \/ S.logouts[j].stage = "wait"

DroppedLogin == [settings |-> NullSettings, stage |-> "done", version |-> 0,
                 out |-> NoResult, generation |-> 0, reused |-> FALSE,
                 advertised |-> 0]

\* The size of a run: the logins started and the callers that have called.
Work(S) == Len(S.logins) + Cardinality({c \in Callers : S.ops[c].kind # "none"})

Collect(S) ==
  [j \in 1..Len(S.logins) |->
     IF S.logins[j].stage = "done" /\ ~Referenced(S, j)
       THEN DroppedLogin ELSE S.logins[j]]

Becomes(S) ==
  /\ Work(S) <= MaxWork
  /\ settings' = S.settings
  /\ settingsVersion' = S.settingsVersion
  /\ sidPromise' = S.sidPromise
  /\ logins' = Collect(S)
  /\ logouts' = S.logouts
  /\ ops' = S.ops
  /\ clears' = S.clears
  /\ logoutAttempts' = S.logoutAttempts
  /\ UNCHANGED <<resolverVars, functionVars>>

\* One more public operation is called.
Called == calls < MaxCalls /\ calls' = calls + 1

NoCall == [at |-> 0, ret |-> FALSE, arg |-> NullSettings, prev |-> NullSettings]

\* ------------------------------------------------------------------- Init
\* ------------------------------------------- quickconnect: server infos
\* A JavaScript number, string or undefined, as the discovery service's JSON
\* delivers ports.
Num(n) == [t |-> "number", n |-> n, s |-> ""]
Str(str) == [t |-> "string", n |-> 0, s |-> str]
Undef == [t |-> "undefined", n |-> 0, s |-> ""]

\* Not-a-number, which no port equals.
NaN == -1

\* Unary plus.
ToNumber(v) ==
  IF v.t = "number" THEN v.n
  ELSE IF v.t = "undefined" THEN NaN
  ELSE IF v.s = "5000" THEN 5000
  ELSE IF v.s = "6000" THEN 6000
  ELSE IF v.s \in {"0", ""} THEN 0
  ELSE NaN

\* !!v of a number, string or undefined, and of a string field that may be
\* absent.
Truthy(v) ==
  IF v.t = "number" THEN v.n # 0 /\ v.n # NaN
  ELSE IF v.t = "string" THEN v.s # ""
  ELSE FALSE

Present(str) == str # Undefined /\ str # ""

\* ips.ts, evaluated on the addresses the server infos below hold.
Ipv4Addresses == {"192.168.1.5", "10.0.0.2", "127.0.0.1", "8.8.8.8", "8.8.4.4"}
Ipv6Addresses == {"fe80::2", "2001:db8::1"}

isPrivate(address) == address \in {"192.168.1.5", "10.0.0.2", "127.0.0.1", "fe80::2"}
isLoopback(address) == address = "127.0.0.1"
isIpv4(address) == address \in Ipv4Addresses
isIpv6(address) == address \in Ipv4Addresses \cup Ipv6Addresses

md5(str) == "md5(" \o str \o ")"

\* A server info as requestTunnel delivers it; an absent object is an object
\* whose fields are all absent.
ServerInfo(serverID, interface, ddns, fqdn, externalIp, port, ext_port, relay_ip, relay_port) ==
  [errinfo |-> Undefined, errno |-> 0, serverID |-> serverID,
   hasInterface |-> TRUE, interface |-> interface, ddns |-> ddns, fqdn |-> fqdn,
   externalIp |-> externalIp, port |-> port, ext_port |-> ext_port,
   relay_ip |-> relay_ip, relay_port |-> relay_port,
   control_host |-> "a", relay_region |-> "us"]

Iface(ip, ipv6) == [ip |-> ip, ipv6 |-> ipv6]
Ipv6(scope, address) == [scope |-> scope, address |-> address]

\* One private IPv4 interface, the external port equal to the port, no relay.
PlainInfo ==
  ServerInfo("id1", <<Iface("192.168.1.5", <<>>)>>, "NULL", "NULL", "8.8.4.4",
             Num(5000), Str("5000"), Undefined, Undef)

\* Interfaces of every class, names, a distinct external port and a relay.
RichInfo ==
  ServerInfo("id2",
             <<Iface("8.8.8.8", <<Ipv6("global", "2001:db8::1"), Ipv6("link", "fe80::2")>>),
               Iface("127.0.0.1", <<>>),
               Iface("10.0.0.2", <<>>)>>,
             "nas.ddns.net", "nas.example.com", "8.8.4.4",
             Str("5000"), Str("6000"), "1.2.3.4", Num(443))

\* A relay but nothing else to reach: no interface address, no names.
RelayInfo ==
  ServerInfo("id3", <<>>, "NULL", "NULL", "8.8.4.4",
             Num(5000), Num(5000), "1.2.3.4", Num(443))

\* A port that is no number.
BadPortInfo ==
  ServerInfo("id4", <<Iface("192.168.1.5", <<>>)>>, "NULL", "NULL", "8.8.4.4",
             Str("http"), Str("6000"), Undefined, Undef)

\* External ports that are the string "0", no number, and a number.
ZeroExtPortInfo == [PlainInfo EXCEPT !.ext_port = Str("0")]
TextExtPortInfo == [PlainInfo EXCEPT !.ext_port = Str("any")]
NumberExtPortInfo == [PlainInfo EXCEPT !.ext_port = Num(6000)]

ValidInfos ==
  {PlainInfo, RichInfo, RelayInfo, BadPortInfo,
   ZeroExtPortInfo, TextExtPortInfo, NumberExtPortInfo}

\* Infos the validity rule refuses: no serverID, no external ip, external
\* port 0, a non-zero errno, no interface list.
InvalidInfos ==
  {[PlainInfo EXCEPT !.serverID = Undefined],
   [RichInfo EXCEPT !.externalIp = Undefined],
   [RichInfo EXCEPT !.ext_port = Num(0)],
   [PlainInfo EXCEPT !.errno = 4],
   [PlainInfo EXCEPT !.hasInterface = FALSE]}

ErrorPayload == [PlainInfo EXCEPT !.errinfo = "get_server_info.go:69[Alias not found]",
                                  !.errno = 4]

\* ------------------------------------ quickconnect: candidate generation
isValidServerInfo(info) ==
  /\ info.errno = 0
  /\ info.hasInterface
  /\ Present(info.externalIp)
  /\ Present(info.serverID)
  /\ Truthy(info.port)
  /\ Truthy(info.ext_port)
  /\ Present(info.control_host)
  /\ Present(info.relay_region)

\* Variant: the relay fields are not consulted.
hasTunnelAlways(info) == TRUE

hasTunnel(info) == Present(info.relay_ip) /\ Truthy(info.relay_port)

PROTOCOL_PORTS == [http |-> 80, https |-> 443]

ConnectionType == {"LAN_IPV4", "LAN_IPV6", "FQDN", "DDNS", "WAN_IPV6", "WAN_IPV4", "TUN"}

\* Variant: the external port is not compared with the port.
shouldCheckExtPortAnyPort(extPort, port) ==
  /\ extPort # Undef
  /\ extPort # Num(0)
  /\ extPort # Str("0")
  /\ ToNumber(extPort) # NaN

\* Variant: the WAN address families are swapped.
PreferenceWanIpv4First ==
  <<"LAN_IPV4", "LAN_IPV6", "FQDN", "DDNS", "WAN_IPV4", "WAN_IPV6", "TUN">>

PREFERRED_CONNECTION_ORDERING ==
  <<"LAN_IPV4", "LAN_IPV6", "FQDN", "DDNS", "WAN_IPV6", "WAN_IPV4", "TUN">>

shouldCheckExtPort(extPort, port) ==
  /\ extPort # Undef
  /\ extPort # Num(0)
  /\ extPort # Str("0")
  /\ ToNumber(extPort) # NaN
  /\ ToNumber(extPort) # port

\* candidates[type].push({ hostname, port }); the type is kept with the
\* candidate so that its place can be told.
Candidate(type, hostname, port) == [type |-> type, hostname |-> hostname, port |-> port]

addWithPort(type, hostname, port) == <<Candidate(type, hostname, port)>>

\* extPort is 0 when it is undefined: both skip the push.
addWithExtPort(type, hostname, extPort) ==
  IF extPort # 0 THEN <<Candidate(type, hostname, extPort)>> ELSE <<>>

RECURSIVE Ipv6Pushes(_, _, _)
Ipv6Pushes(ipv6, port, extPort) ==
  IF ipv6 = <<>> THEN <<>>
  ELSE LET ipv6Interface == Head(ipv6) IN
       (IF Present(ipv6Interface.address)
          THEN addWithPort(IF ipv6Interface.scope = "link"
                             THEN "LAN_IPV6" ELSE "WAN_IPV6",
                           ipv6Interface.address, port)
               \o addWithExtPort("WAN_IPV6", ipv6Interface.address, extPort)
          ELSE <<>>)
       \o Ipv6Pushes(Tail(ipv6), port, extPort)

\* Variant: the external-port candidate goes to the group of the address.
RECURSIVE InterfacePushesSameGroup(_, _, _)
InterfacePushesSameGroup(interface, port, extPort) ==
  IF interface = <<>> THEN <<>>
  ELSE LET iface == Head(interface) IN
       Ipv6Pushes(iface.ipv6, port, extPort)
       \o (IF Present(iface.ip) /\ ~isLoopback(iface.ip)
             THEN addWithPort(IF isPrivate(iface.ip) THEN "LAN_IPV4" ELSE "WAN_IPV4",
                              iface.ip, port)
                  \o addWithExtPort(IF isPrivate(iface.ip) THEN "LAN_IPV4" ELSE "WAN_IPV4",
                                    iface.ip, extPort)
             ELSE <<>>)
       \o InterfacePushesSameGroup(Tail(interface), port, extPort)

RECURSIVE InterfacePushes(_, _, _)
InterfacePushes(interface, port, extPort) ==
  IF interface = <<>> THEN <<>>
  ELSE LET iface == Head(interface) IN
       Ipv6Pushes(iface.ipv6, port, extPort)
       \o (IF Present(iface.ip) /\ ~isLoopback(iface.ip)
             THEN addWithPort(IF isPrivate(iface.ip) THEN "LAN_IPV4" ELSE "WAN_IPV4",
                              iface.ip, port)
                  \o addWithExtPort("WAN_IPV4", iface.ip, extPort)
             ELSE <<>>)
       \o InterfacePushes(Tail(interface), port, extPort)

\* Variant: the tunnel mode is not consulted.
PushesAnyMode(quickConnectId, defaultPort, info, tunnel) ==
  LET port == ToNumber(info.port)
      extPort == IF shouldCheckExtPort(info.ext_port, port)
                   THEN ToNumber(info.ext_port) ELSE 0
  IN (IF port # NaN
        THEN InterfacePushes(info.interface, port, extPort)
             \o (IF Present(info.ddns) /\ info.ddns # "NULL"
                   THEN addWithPort("DDNS", info.ddns, port)
                        \o addWithExtPort("DDNS", info.ddns, extPort)
                   ELSE <<>>)
             \o (IF Present(info.fqdn) /\ info.fqdn # "NULL"
                   THEN addWithPort("FQDN", info.fqdn, port)
                        \o addWithExtPort("FQDN", info.fqdn, extPort)
                   ELSE <<>>)
             \o (IF Present(info.externalIp)
                   THEN addWithPort("LAN_IPV4", info.externalIp, port)
                        \o addWithExtPort("LAN_IPV4", info.externalIp, extPort)
                   ELSE <<>>)
        ELSE <<>>)
     \o (IF hasTunnel(info)
           THEN <<Candidate("TUN",
                            quickConnectId \o "." \o info.relay_region \o ".quickconnect.to",
                            defaultPort)>>
           ELSE <<>>)

\* The pushes generateConnectionCandidates makes, in the order it makes them.
Pushes(quickConnectId, defaultPort, info, tunnel) ==
  LET port == ToNumber(info.port)
      extPort == IF shouldCheckExtPort(info.ext_port, port)
                   THEN ToNumber(info.ext_port) ELSE 0
  IN (IF port # NaN /\ (tunnel = "include" \/ tunnel = "exclude")
        THEN InterfacePushes(info.interface, port, extPort)
             \o (IF Present(info.ddns) /\ info.ddns # "NULL"
                   THEN addWithPort("DDNS", info.ddns, port)
                        \o addWithExtPort("DDNS", info.ddns, extPort)
                   ELSE <<>>)
             \o (IF Present(info.fqdn) /\ info.fqdn # "NULL"
                   THEN addWithPort("FQDN", info.fqdn, port)
                        \o addWithExtPort("FQDN", info.fqdn, extPort)
                   ELSE <<>>)
             \o (IF Present(info.externalIp)
                   THEN addWithPort("LAN_IPV4", info.externalIp, port)
                        \o addWithExtPort("LAN_IPV4", info.externalIp, extPort)
                   ELSE <<>>)
        ELSE <<>>)
     \o (IF hasTunnel(info) /\ (tunnel = "require" \/ tunnel = "include")
           THEN <<Candidate("TUN",
                            quickConnectId \o "." \o info.relay_region \o ".quickconnect.to",
                            defaultPort)>>
           ELSE <<>>)

\* The final map of generateConnectionCandidates: IPv6 hostnames in brackets.
Bracketed(candidate) ==
  [candidate EXCEPT !.hostname = IF isIpv6(@) /\ ~isIpv4(@)
                                   THEN "[" \o @ \o "]" ELSE @]

RECURSIVE MapBracketed(_)
MapBracketed(seq) ==
  IF seq = <<>> THEN <<>> ELSE <<Bracketed(Head(seq))>> \o MapBracketed(Tail(seq))

generateConnectionCandidates(quickConnectId, defaultPort, info, tunnel) ==
  [type \in ConnectionType |->
     MapBracketed(SelectSeq(Pushes(quickConnectId, defaultPort, info, tunnel),
                            LAMBDA c : c.type = type))]

\* [].concat(...PREFERRED_CONNECTION_ORDERING.map(type => candidates[type]))
RECURSIVE ConcatInOrder(_, _)
ConcatInOrder(candidates, ordering) ==
  IF ordering = <<>> THEN <<>>
  ELSE candidates[Head(ordering)] \o ConcatInOrder(candidates, Tail(ordering))

formattedConnections(quickConnectId, protocol, info, tunnel) ==
  ConcatInOrder(generateConnectionCandidates(quickConnectId, PROTOCOL_PORTS[protocol],
                                             info, tunnel),
                PREFERRED_CONNECTION_ORDERING)

\* An object none of whose fields is present, and a candidate that is none.
NoInfo ==
  [ServerInfo(Undefined, <<>>, Undefined, Undefined, Undefined, Undef, Undef,
              Undefined, Undef)
     EXCEPT !.hasInterface = FALSE, !.control_host = Undefined,
            !.relay_region = Undefined]

NoConnection == Candidate("", "", 0)

\* The fields of a ping-pong response the resolver reads.
PingPongResponse(success, ezid) == [success |-> success, ezid |-> ezid]

ClientInit ==
  /\ settings \in ApiClientSettings
  /\ settingsVersion = 0
  /\ sidPromise = NoPromise
  /\ onSettingsChangeListeners = <<>>
  /\ subscriptions = <<>>
  /\ logins = <<>>
  /\ logouts = [j \in Jobs |-> NoLogout]
  /\ ops = [c \in Callers |-> IdleOp]
  /\ clears = 0
  /\ logoutAttempts = 0
  /\ calls = 0
  /\ notified = [l \in Listeners |-> 0]
  /\ lastOp = NoCall

\* A request on the network that has not settled yet.
Request(call, controlHost, connection) ==
  [call |-> call, controlHost |-> controlHost, connection |-> connection]

\* No resolveQuickConnectId call is made: nothing is captured yet.
NoResolution ==
  [pc |-> "none", quickConnectId |-> "", protocol |-> "", tunnel |-> "",
   hosts |-> <<>>, controlHost |-> "", serverIdHash |-> "",
   connections |-> <<>>, connection |-> NoConnection,
   inFlight |-> {}, result |-> NoConnection, error |-> ""]

\* What the network has been asked and has answered so far: the control list
\* delivered, the control hosts queried, the server info last delivered, the
\* candidates probed at each control host, the number of probe responses that
\* passed and the error each failed control host ended with.
NoAttempts ==
  [listed |-> FALSE, sites |-> <<>>, queried |-> <<>>, info |-> NoInfo,
   probed |-> <<>>, passes |-> 0, errors |-> <<>>]

\* No call of series is made. Of a call: the values and the default it was
\* given, the values not yet shifted, the attempts whose promise is pending,
\* and what its promise settled with; as history, the values makePromise was
\* called with, the number of attempts that failed and the value the attempt
\* that succeeded resolved with.
NoSeries ==
  [pc |-> "none", values |-> <<>>, defaultValue |-> Undefined,
   mutableValues |-> <<>>, inFlight |-> {}, result |-> Undefined,
   error |-> Undefined, made |-> <<>>, failed |-> 0, succeeded |-> Undefined]

\* No promise is chained yet. Of a chained promise: the catch site, what the
\* promise settled with and what the chain resolved with.
NoRejection == [pc |-> "none", site |-> "", settled |-> NoResult, result |-> NoResult]

Init ==
  /\ ClientInit
  /\ resolution = NoResolution /\ attempts = NoAttempts
  /\ seriesCall = NoSeries /\ rejection = NoRejection

\* ---------------------------------------------------------------- actions
UpdateSettings ==
  \E s \in ApiClientSettings \cup {NullSettings} :
    /\ Called
    /\ updateSettingsReturns(State, s) => settingsVersion < MaxSettingsVersion
    /\ Becomes(updateSettings(State, s))
    /\ lastOp' = [at |-> calls', ret |-> updateSettingsReturns(State, s),
                  arg |-> s, prev |-> settings]
    /\ UNCHANGED listenerVars

onSettingsChange(l) ==
  /\ Len(subscriptions) < MaxSubscriptions
  /\ Called
  /\ onSettingsChangeListeners' = Append(onSettingsChangeListeners, l)
  /\ subscriptions' = Append(subscriptions, [listener |-> l, isSubscribed |-> TRUE])
  /\ UNCHANGED <<settings, settingsVersion, sidPromise, logins, logouts, ops,
                 clears, logoutAttempts, notified, lastOp, resolverVars,
                 functionVars>>

OnSettingsChange == \E l \in Listeners : onSettingsChange(l)

\* The disposer returned by the i-th onSettingsChange call.
dispose(i) ==
  /\ IF subscriptions[i].isSubscribed
       THEN /\ onSettingsChangeListeners' =
                 SelectSeq(onSettingsChangeListeners,
                           LAMBDA l : l # subscriptions[i].listener)
            /\ subscriptions' = [subscriptions EXCEPT ![i].isSubscribed = FALSE]
       ELSE UNCHANGED <<onSettingsChangeListeners, subscriptions>>
  /\ UNCHANGED <<settings, settingsVersion, sidPromise, logins, logouts, ops,
                 clears, logoutAttempts, calls, notified, lastOp, resolverVars,
                 functionVars>>

Dispose == \E i \in 1..Len(subscriptions) : dispose(i)

Invoke(c) ==
  /\ ops[c].pc \in {"idle", "done"}
  /\ Called
  /\ Becomes(wrappedFunction(
       [State EXCEPT !.ops[c] = [IdleOp EXCEPT !.kind = "proxy",
                                               !.startVersion = settingsVersion]],
       c, TRUE))
  /\ UNCHANGED <<listenerVars, lastOp>>

LoginResolvesForProxy(c) ==
  /\ ops[c].kind = "proxy" /\ ops[c].pc = "login"
  /\ LoginSettled(logins, ops[c].job)
  /\ Becomes(loginThen(State, c, LoginOutcome(logins, ops[c].job)))
  /\ UNCHANGED <<calls, listenerVars, lastOp>>

FnResponses ==
  {Success(0, FALSE, "")} \cup {Failure(code) : code \in ErrorCodes}
    \cup {Rejected(e) : e \in RejectErrors}

\* The wrapped call settles; a success is tagged with the session id and
\* base URL the call was made with.
FnSettles(c) ==
  /\ ops[c].pc = "call"
  /\ \E response \in FnResponses :
       Becomes(callThen(State, c,
                 IF response.t = "success"
                   THEN Success(ops[c].callSid, FALSE, ops[c].callUrl)
                   ELSE response))
  /\ UNCHANGED <<calls, listenerVars, lastOp>>

InfoQuerySettles(j) ==
  /\ j \in 1..Len(logins)
  /\ logins[j].stage = "query"
  /\ \/ \E success \in BOOLEAN, maxVersion \in AdvertisedVersions :
          Becomes(infoQueryThen(State, j, [success |-> success,
                                           maxVersion |-> maxVersion]))
     \/ \E e \in RejectErrors : Becomes(loginRejects(State, j, e))
  /\ UNCHANGED <<calls, listenerVars, lastOp>>

LoginResponses ==
  {Success(0, FALSE, "")} \cup {Failure(code) : code \in ErrorCodes}

AuthLoginSettles(j) ==
  /\ j \in 1..Len(logins)
  /\ logins[j].stage = "login"
  /\ \/ \E response \in LoginResponses : Becomes(authLoginThen(State, j, response))
     \/ \E e \in RejectErrors : Becomes(loginRejects(State, j, e))
  /\ UNCHANGED <<calls, listenerVars, lastOp>>

AuthLogin(c) ==
  /\ ops[c].pc \in {"idle", "done"}
  /\ Called
  /\ LET r == maybeLogin(State) IN
     Becomes([r.state EXCEPT !.ops[c] = [IdleOp EXCEPT !.kind = "login",
                                                      !.pc = "login",
                                                      !.job = r.job]])
  /\ UNCHANGED <<listenerVars, lastOp>>

LoginResolvesForCaller(c) ==
  /\ ops[c].kind = "login" /\ ops[c].pc = "login"
  /\ LoginSettled(logins, ops[c].job)
  /\ Becomes(Return(State, c, LoginOutcome(logins, ops[c].job)))
  /\ UNCHANGED <<calls, listenerVars, lastOp>>

AuthLogout(c) ==
  /\ ops[c].pc \in {"idle", "done"}
  /\ Called
  /\ LET r == maybeLogout(State, c) IN
     Becomes(IF r.ret = NoResult
               THEN [r.state EXCEPT !.ops[c] = [IdleOp EXCEPT !.kind = "logout",
                                                              !.pc = "logout"]]
               ELSE Return([r.state EXCEPT !.ops[c] =
                              [IdleOp EXCEPT !.kind = "logout"]], c, r.ret))
  /\ UNCHANGED <<listenerVars, lastOp>>

StashedLoginResolves(j) ==
  /\ logouts[j].stage = "wait"
  /\ logins[j].stage = "done"
  /\ Becomes(stashedThen(State, j))
  /\ UNCHANGED <<calls, listenerVars, lastOp>>

LogoutResponses ==
  {Success(0, FALSE, "")} \cup {Failure(code) : code \in ErrorCodes}
    \cup {Rejected(e) : e \in RejectErrors}

AuthLogoutSettles(j) ==
  /\ logouts[j].stage = "net"
  /\ \E response \in LogoutResponses :
       Becomes(logoutReturns(State, j, CatchRejection(response)))
  /\ UNCHANGED <<calls, listenerVars, lastOp>>

Next ==
  \/ UpdateSettings
  \/ OnSettingsChange
  \/ Dispose
  \/ \E c \in Callers : Invoke(c)
  \/ \E c \in Callers : LoginResolvesForProxy(c)
  \/ \E c \in Callers : FnSettles(c)
  \/ \E j \in Jobs : InfoQuerySettles(j)
  \/ \E j \in Jobs : AuthLoginSettles(j)
  \/ \E c \in Callers : AuthLogin(c)
  \/ \E c \in Callers : LoginResolvesForCaller(c)
  \/ \E c \in Callers : AuthLogout(c)
  \/ \E j \in Jobs : StashedLoginResolves(j)
  \/ \E j \in Jobs : AuthLogoutSettles(j)

Spec == Init /\ [][Next]_vars

\* ------------------------------------------------ quickconnect: resolver
MaxHosts == 3

ControlHosts == {"host" \o ToString(i) : i \in 1..MaxHosts}

\* The control lists the discovery service may deliver: any hosts, any order.
ControlLists ==
  {q \in UNION {[1..n -> ControlHosts] : n \in 0..MaxHosts} :
     \A i, j \in DOMAIN q : i # j => q[i] # q[j]}

QuickConnectIds == {"myid"}
Protocols == {"http", "https"}
TunnelRequests == {"exclude", "include", "require"}
TransportErrors == {"ETIMEDOUT"}

\* What requestTunnel and pingPong may deliver.
TunnelResults == ValidInfos \cup InvalidInfos \cup {ErrorPayload}
PingPongResponses ==
  {PingPongResponse(success, ezid) :
     success \in BOOLEAN, ezid \in {md5(info.serverID) : info \in ValidInfos}}

Resolver == [resolution |-> resolution, attempts |-> attempts]

Last(seq) == seq[Len(seq)]

\* The promise resolveQuickConnectId returned rejects.
rejects(Q, e) ==
  [Q EXCEPT !.resolution.pc = "rejected", !.resolution.error = e]

\* Variant of iterate: the values are taken from the end.
iterateHostsFromEnd(Q) ==
  LET value == Last(Q.resolution.hosts) IN
  [Q EXCEPT !.resolution.pc = "host",
            !.resolution.hosts = SubSeq(@, 1, Len(@) - 1),
            !.resolution.controlHost = value,
            !.resolution.inFlight =
               @ \cup {Request("requestTunnel", value, NoConnection)},
            !.attempts.queried = Append(@, value)]

\* iterate of the series over the control hosts: shift the next one and call
\* tryResolveFromControlHost, which requests the tunnel.
iterateHosts(Q) ==
  LET value == Head(Q.resolution.hosts) IN
  [Q EXCEPT !.resolution.pc = "host",
            !.resolution.hosts = Tail(@),
            !.resolution.controlHost = value,
            !.resolution.inFlight =
               @ \cup {Request("requestTunnel", value, NoConnection)},
            !.attempts.queried = Append(@, value)]

\* Variant of the catch: the first error is the one kept.
hostCatchFirstError(Q, e) ==
  LET F == [Q EXCEPT !.attempts.errors = Append(@, e),
                     !.resolution.serverIdHash = "",
                     !.resolution.connections = <<>>,
                     !.resolution.connection = NoConnection]
  IN IF F.resolution.hosts # <<>> THEN iterateHosts(F)
     ELSE rejects(F, F.attempts.errors[1])

\* The catch of the series over the control hosts: tryResolveFromControlHost
\* rejected with e.
hostCatch(Q, e) ==
  LET F == [Q EXCEPT !.attempts.errors = Append(@, e),
                     !.resolution.serverIdHash = "",
                     !.resolution.connections = <<>>,
                     !.resolution.connection = NoConnection]
  IN IF F.resolution.hosts # <<>> THEN iterateHosts(F) ELSE rejects(F, e)

\* getControlList().then(controlHosts => series(controlHosts, ...))
getControlListThen(Q, controlHosts) ==
  LET L == [Q EXCEPT !.attempts.sites = controlHosts, !.attempts.listed = TRUE,
                     !.resolution.hosts = controlHosts]
  IN IF Len(controlHosts) = 0
       THEN rejects(L, "no values were given for series")
       ELSE iterateHosts(L)

\* Variant of iterate: the connections are all probed at once.
iterateConnectionsAtOnce(Q) ==
  LET value == Head(Q.resolution.connections) IN
  [Q EXCEPT !.resolution.pc = "probe",
            !.resolution.connections = Tail(@),
            !.resolution.connection = value,
            !.resolution.inFlight =
               @ \cup {Request("pingPong", Q.resolution.controlHost,
                               Q.resolution.connections[i]) :
                         i \in DOMAIN Q.resolution.connections},
            !.attempts.probed =
               Append(@, [controlHost |-> Q.resolution.controlHost,
                          connection |-> value])]

\* iterate of the series over the connections: shift the next one and probe it.
iterateConnections(Q) ==
  LET value == Head(Q.resolution.connections) IN
  [Q EXCEPT !.resolution.pc = "probe",
            !.resolution.connections = Tail(@),
            !.resolution.connection = value,
            !.resolution.inFlight =
               @ \cup {Request("pingPong", Q.resolution.controlHost, value)},
            !.attempts.probed =
               Append(@, [controlHost |-> Q.resolution.controlHost,
                          connection |-> value])]

\* The catch of the series over the connections.
connectionCatch(Q, e) ==
  IF Q.resolution.connections # <<>> THEN iterateConnections(Q) ELSE hostCatch(Q, e)

\* Variant: an invalid server info ends the resolution.
requestTunnelThenInvalidEnds(Q, result) ==
  IF result.errinfo # Undefined THEN hostCatch(Q, result.errinfo)
  ELSE IF ~isValidServerInfo(result)
    THEN rejects(Q, "server info returned is invalid!")
  ELSE LET connections ==
             formattedConnections(Q.resolution.quickConnectId,
                                  Q.resolution.protocol, result,
                                  Q.resolution.tunnel)
           G == [Q EXCEPT !.resolution.serverIdHash = md5(result.serverID),
                          !.resolution.connections = connections]
       IN IF Len(connections) = 0
            THEN hostCatch(G, "no values were given for series")
            ELSE iterateConnections(G)

\* requestTunnel(...).then(result => ...)
requestTunnelThen(Q, result) ==
  IF result.errinfo # Undefined THEN hostCatch(Q, result.errinfo)
  ELSE IF ~isValidServerInfo(result)
    THEN hostCatch(Q, "server info returned is invalid!")
  ELSE LET connections ==
             formattedConnections(Q.resolution.quickConnectId,
                                  Q.resolution.protocol, result,
                                  Q.resolution.tunnel)
           G == [Q EXCEPT !.resolution.serverIdHash = md5(result.serverID),
                          !.resolution.connections = connections]
       IN IF Len(connections) = 0
            THEN hostCatch(G, "no values were given for series")
            ELSE iterateConnections(G)

\* Variant: the identity token is not compared.
pingPongThenAnyEzid(Q, result) ==
  IF ~result.success
    THEN connectionCatch(Q, "unsuccessful response from candidate connection")
  ELSE [Q EXCEPT !.resolution.pc = "resolved",
                 !.resolution.result = Q.resolution.connection]

\* pingPong(...).then(result => ...)
pingPongThen(Q, result) ==
  IF ~result.success
    THEN connectionCatch(Q, "unsuccessful response from candidate connection")
  ELSE IF result.ezid # Q.resolution.serverIdHash
    THEN connectionCatch(Q, "pingpong response has incorrect ezid")
  ELSE [Q EXCEPT !.resolution.pc = "resolved",
                 !.resolution.result = Q.resolution.connection]

\* The request r has settled.
Answered(Q, r) == [Q EXCEPT !.resolution.inFlight = @ \ {r}]

Settles(Q) ==
  /\ resolution' = Q.resolution
  /\ attempts' = Q.attempts
  /\ UNCHANGED <<clientVars, functionVars>>

\* resolveQuickConnectId(quickConnectId, protocol, tunnel) is called.
ResolveQuickConnectId ==
  \E quickConnectId \in QuickConnectIds, protocol \in Protocols,
     tunnel \in TunnelRequests :
    /\ resolution.pc = "none"
    /\ resolution' = [resolution EXCEPT !.pc = "list",
                                        !.inFlight =
                                           {Request("getControlList", "", NoConnection)},
                                        !.quickConnectId = quickConnectId,
                                        !.protocol = protocol,
                                        !.tunnel = tunnel]
    /\ UNCHANGED <<attempts, clientVars, functionVars>>

\* The requests of one kind that have not settled.
InFlight(call) == {r \in resolution.inFlight : r.call = call}

GetControlListResolves ==
  \E r \in InFlight("getControlList"), controlHosts \in ControlLists :
    Settles(getControlListThen(Answered(Resolver, r), controlHosts))

GetControlListRejects ==
  \E r \in InFlight("getControlList"), e \in TransportErrors :
    Settles(rejects(Answered(Resolver, r), e))

RequestTunnelResolves ==
  \E r \in InFlight("requestTunnel"), result \in TunnelResults :
    Settles(requestTunnelThen(
      [Answered(Resolver, r) EXCEPT !.attempts.info = result], result))

RequestTunnelRejects ==
  \E r \in InFlight("requestTunnel"), e \in TransportErrors :
    Settles(hostCatch(Answered(Resolver, r), e))

\* A response passes when it reports success with the hash of the serverID
\* the control host last advertised.
Passes(response) ==
  response.success /\ response.ezid = md5(attempts.info.serverID)

PingPongResolves ==
  \E r \in InFlight("pingPong"), result \in PingPongResponses :
    Settles(pingPongThen(
      [Answered(Resolver, r) EXCEPT
         !.attempts.passes = IF Passes(result) THEN @ + 1 ELSE @],
      result))

PingPongRejects ==
  \E r \in InFlight("pingPong"), e \in TransportErrors :
    Settles(connectionCatch(Answered(Resolver, r), e))

ResolveNext ==
  \/ ResolveQuickConnectId
  \/ GetControlListResolves
  \/ GetControlListRejects
  \/ RequestTunnelResolves
  \/ RequestTunnelRejects
  \/ PingPongResolves
  \/ PingPongRejects

\* The resolver is a function of its own: the client stays as constructed.
ResolveInit ==
  /\ Init
  /\ settings = [baseUrl |-> "u1", account |-> "a1", passwd |-> "p1",
                 session |-> "DownloadStation"]

ResolveSpec == ResolveInit /\ [][ResolveNext]_vars

\* ------------------------------------------------------------- series
MaxValues == 3

SeriesLists == UNION {[1..n -> {"a", "b"}] : n \in 0..MaxValues}
SeriesDefaults == {Undefined, "", "d"}
SeriesOutcomes == {"u1", "u2"}
SeriesErrors == {"e1", "e2"}

\* Variant of iterate: the values are taken from the end.
iterateFromEnd(R) ==
  [R EXCEPT !.pc = "pending",
            !.mutableValues = SubSeq(@, 1, Len(@) - 1),
            !.made = Append(@, Last(R.mutableValues)),
            !.inFlight = @ \cup {Len(R.made) + 1}]

\* iterate: shift the first value and call makePromise with it.
iterate(R) ==
  [R EXCEPT !.pc = "pending",
            !.mutableValues = Tail(@),
            !.made = Append(@, Head(R.mutableValues)),
            !.inFlight = @ \cup {Len(R.made) + 1}]

\* Variant: the default is tested before the values.
seriesDefaultFirst(values, defaultValue) ==
  LET R == [NoSeries EXCEPT !.values = values, !.defaultValue = defaultValue,
                            !.mutableValues = values]
  IN IF defaultValue # Undefined
       THEN [R EXCEPT !.pc = "resolved", !.result = defaultValue]
     ELSE IF Len(values) = 0
       THEN [R EXCEPT !.pc = "rejected", !.error = "no values were given for series"]
     ELSE iterate(R)

\* series(values, makePromise, defaultValue) up to the promise it returns.
series(values, defaultValue) ==
  LET R == [NoSeries EXCEPT !.values = values, !.defaultValue = defaultValue,
                            !.mutableValues = values]
  IN IF Len(values) = 0
       THEN IF defaultValue = Undefined
              THEN [R EXCEPT !.pc = "rejected",
                             !.error = "no values were given for series"]
              ELSE [R EXCEPT !.pc = "resolved", !.result = defaultValue]
       ELSE iterate(R)

\* The catch chained on makePromise(value).
seriesCatch(R, e) ==
  IF Len(R.mutableValues) > 0 THEN iterate(R)
  ELSE [R EXCEPT !.pc = "rejected", !.error = e]

\* makePromise(value) resolved: the catch is passed over.
seriesPass(R, u) == [R EXCEPT !.pc = "resolved", !.result = u]

SeriesCalled ==
  \E values \in SeriesLists, defaultValue \in SeriesDefaults :
    /\ seriesCall.pc = "none"
    /\ seriesCall' = series(values, defaultValue)
    /\ UNCHANGED <<clientVars, resolverVars, rejection>>

MakePromiseResolves ==
  \E i \in seriesCall.inFlight, u \in SeriesOutcomes :
    /\ seriesCall' = seriesPass([seriesCall EXCEPT !.inFlight = @ \ {i},
                                                   !.succeeded = u], u)
    /\ UNCHANGED <<clientVars, resolverVars, rejection>>

MakePromiseRejects ==
  \E i \in seriesCall.inFlight, e \in SeriesErrors :
    /\ seriesCall' = seriesCatch([seriesCall EXCEPT !.inFlight = @ \ {i},
                                                    !.failed = @ + 1], e)
    /\ UNCHANGED <<clientVars, resolverVars, rejection>>

SeriesNext ==
  \/ SeriesCalled
  \/ MakePromiseResolves
  \/ MakePromiseRejects

\* series is a function of its own: client and resolver stay as constructed.
SeriesSpec == ResolveInit /\ [][SeriesNext]_vars

\* ------------------------------------------------- catch(handleRejection)
AxiosErrors ==
  {AxiosError(status, message) :
     status \in {0, 400, 401, 404, 500},
     message \in {Undefined, "Network Error", "network error",
                  "timeout of 60000ms exceeded",
                  "Error: timeout of 5ms exceeded (retry)",
                  "timeout of ms exceeded",
                  "Request failed with status code 400"}}
  \cup {NullError}

\* One of the chains handleRejection is the catch of is built.
CatchChained ==
  \E site \in {"maybeLogin", "maybeLogout", "wrappedFunction"} :
    /\ rejection.pc = "none"
    /\ rejection' = [rejection EXCEPT !.pc = "pending", !.site = site]
    /\ UNCHANGED <<clientVars, resolverVars, seriesCall>>

ChainedPromiseRejects ==
  \E error \in AxiosErrors :
    /\ rejection.pc = "pending"
    /\ rejection' = [rejection EXCEPT !.pc = "settled",
                                      !.settled = Rejected(error),
                                      !.result = CatchRejection(Rejected(error))]
    /\ UNCHANGED <<clientVars, resolverVars, seriesCall>>

ChainedPromiseResolves ==
  \E out \in {Success(1, FALSE, "u1")} \cup {Failure(code) : code \in ErrorCodes} :
    /\ rejection.pc = "pending"
    /\ rejection' = [rejection EXCEPT !.pc = "settled", !.settled = out,
                                      !.result = CatchRejection(out)]
    /\ UNCHANGED <<clientVars, resolverVars, seriesCall>>

RejectionNext ==
  \/ CatchChained
  \/ ChainedPromiseRejects
  \/ ChainedPromiseResolves

RejectionSpec == ResolveInit /\ [][RejectionNext]_vars

\* ------------------------------------------------------------- properties
\* This step is a call of updateSettings.
UpdateSettingsCalled == lastOp'.at # lastOp.at

Recoverable(r) ==
  r.t = "failure" /\ r.code \in {NO_PERMISSIONS_ERROR_CODE, SESSION_TIMEOUT_ERROR_CODE}

DifferingFields(s, t) == {k \in SETTING_NAME_KEYS : s[k] # t[k]}

\* This step runs a callback of caller c's proxied invocation.
ProxyCallback(c) ==
  ops[c].kind = "proxy" /\ ops[c].pc \in {"login", "call"} /\ ops'[c] # ops[c]

\* C1: while a login is cached and the step does not clear the cache, no
\* step starts another login: the cache keeps that login, every caller that
\* starts acquiring a session is attached to it, and a caller of Auth.Login
\* receives the outcome of the login it was attached to.
C1_OneLoginWhileCached ==
  [][/\ (sidPromise # NoPromise /\ clears' = clears) =>
          /\ Len(logins') = Len(logins)
          /\ sidPromise' = sidPromise
          /\ \A c \in Callers :
               (ops'[c].pc = "login" /\ ops'[c] # ops[c]) => ops'[c].job = sidPromise
     /\ \A c \in Callers :
          (ops[c].kind = "login" /\ ops[c].pc = "login" /\ ops'[c].pc = "done") =>
            ops'[c].result = LoginOutcome(logins, ops[c].job)]_vars

C1_Witness ==
  /\ Len(logins) = 1
  /\ \A c \in Callers :
       /\ ops[c].kind = "login" /\ ops[c].pc = "done"
       /\ ops[c].result = Success(1, FALSE, "")

\* C2 (as claimed): a proxied invocation never performs more than one
\* session-recovery retry, whatever restarts the settings changes cause.
C2_AtMostOneRetryEver == \A c \in Callers : ops[c].retries <= 1

\* C2 (amended): a proxied invocation performs at most one session-recovery
\* retry between two restarts: its retries never exceed its restarts plus one.
C2_OneRetryPerRestart == \A c \in Callers : ops[c].retries <= ops[c].restarts + 1

C2_Witness ==
  \E c \in Callers :
    ops[c].pc = "done" /\ ops[c].retries = 2 /\ ops[c].restarts = 1

C4_NeverRejects ==
  \A c \in Callers :
    ops[c].pc = "done" =>
      ops[c].result.t \in {"success", "failure", "connection-failure", "not-logged-in"}

C4_Witness ==
  /\ \E c \in Callers :
       /\ ops[c].kind = "proxy" /\ ops[c].pc = "done" /\ ops[c].fnCalls = 1
       /\ ops[c].result.t = "connection-failure"
  /\ \E c \in Callers :
       /\ ops[c].kind = "logout" /\ ops[c].pc = "done"
       /\ ops[c].result.t = "connection-failure"

\* C5 (as claimed): an invocation that ends after one session-recovery retry,
\* with the settings unchanged, has re-issued the wrapped call after the
\* retry and returns the outcome of that call.
C5_RetryAlwaysReissues ==
  [][\A c \in Callers :
       (ProxyCallback(c) /\ ops'[c].pc = "done" /\ ops'[c].retries = 1
          /\ ops'[c].restarts = 0 /\ ops[c].versionAtInit = settingsVersion) =>
         ops'[c].afterRetry = 1]_vars

\* C5 (amended): with the settings unchanged, a 105/106 failure of the first
\* attempt clears the cached session and starts a fresh login; if that login
\* succeeds the wrapped call is re-issued once with its session id and its
\* outcome is returned, even a 105/106 failure; if that login fails, its
\* failure is returned and the wrapped call is not re-issued.
C5_RetryOnceWithFreshSession ==
  [][\A c \in Callers :
       (ProxyCallback(c) /\ ops[c].restarts = 0
          /\ ops[c].versionAtInit = settingsVersion) =>
         /\ (ops[c].shouldRetry /\ Recoverable(ops'[c].seen)) =>
              /\ ops'[c].retries = 1
              /\ ops'[c].pc = "login" /\ ~ops'[c].shouldRetry
              /\ Len(logins') = Len(logins) + 1
              /\ sidPromise' = Len(logins')
              /\ ops'[c].job = sidPromise' /\ ops'[c].freshJob = sidPromise'
              /\ logins'[sidPromise'].stage = "query"
              /\ logins'[sidPromise'].settings = settings
         /\ (~ops[c].shouldRetry /\ ops[c].pc = "login") =>
              IF ops'[c].seen.t = "success"
                THEN /\ ops'[c].pc = "call"
                     /\ ops'[c].callSid = ops[c].freshJob
                     /\ ops'[c].afterRetry = 1
                ELSE /\ ops'[c].pc = "done"
                     /\ ops'[c].result = ops'[c].seen
                     /\ ops'[c].afterRetry = 0
         /\ (~ops[c].shouldRetry /\ ops[c].pc = "call") =>
              /\ ops'[c].pc = "done"
              /\ ops'[c].result = CatchRejection(ops'[c].seen)
              /\ ops'[c].seen.t = "success" => ops'[c].seen.sid = ops[c].freshJob
              /\ ops'[c].retries = 1 /\ ops'[c].afterRetry = 1
              /\ ops'[c].fnCalls = ops[c].fnCalls
              /\ Len(logins') = Len(logins)]_vars

C5_Witness ==
  \E c \in Callers :
    /\ ops[c].pc = "done" /\ ops[c].retries = 1 /\ ops[c].restarts = 0
    /\ ops[c].fnCalls = 2 /\ ops[c].afterRetry = 1
    /\ ops[c].result = Failure(SESSION_TIMEOUT_ERROR_CODE)

\* C6: with the settings unchanged, a callback of a proxied invocation that
\* receives a success of the wrapped call, a remote failure with a code other
\* than 105/106, or a ConnectionFailure of the session acquisition returns it
\* unchanged: no retry, no login, no further call of the wrapped operation.
C6_NoRetryCase(o, r) ==
  \/ o.pc = "call" /\ r.t = "success"
  \/ r.t = "failure" /\ ~Recoverable(r)
  \/ o.pc = "login" /\ isConnectionFailure(r)

C6_ReturnedUnchanged ==
  [][\A c \in Callers :
       (ProxyCallback(c) /\ ops[c].versionAtInit = settingsVersion
          /\ C6_NoRetryCase(ops[c], ops'[c].seen)) =>
         /\ ops'[c].pc = "done"
         /\ ops'[c].result = ops'[c].seen
         /\ ops'[c].retries = ops[c].retries
         /\ ops'[c].fnCalls = ops[c].fnCalls
         /\ Len(logins') = Len(logins)
         /\ sidPromise' = sidPromise /\ clears' = clears]_vars

C6_Witness ==
  /\ \E c \in Callers :
       /\ ops[c].kind = "proxy" /\ ops[c].pc = "done"
       /\ ops[c].retries = 0 /\ ops[c].restarts = 0 /\ ops[c].fnCalls = 1
       /\ ops[c].result = Failure(400)
  /\ \E c \in Callers :
       /\ ops[c].kind = "proxy" /\ ops[c].pc = "done"
       /\ ops[c].retries = 0 /\ ops[c].restarts = 0 /\ ops[c].fnCalls = 0
       /\ ops[c].result = ConnFailure("missing-config", NoError)

\* C7: updateSettings called with settings whose four fields equal the
\* current ones returns false and changes nothing: not the generation, the
\* settings, the cached login, nor any login or logout chain.
C7_EqualSettingsNoEffect ==
  [][(UpdateSettingsCalled /\ ~SettingsDiffer(lastOp'.arg, settings)) =>
       /\ lastOp'.ret = FALSE
       /\ UNCHANGED <<settings, settingsVersion, sidPromise, logins, logouts,
                      ops, clears, logoutAttempts, listenerVars>>]_vars

C7_Witness ==
  /\ lastOp.at = calls /\ lastOp.at > 0
  /\ lastOp.arg = settings /\ ~lastOp.ret
  /\ sidPromise # NoPromise

\* C8: the generation never decreases; a call of updateSettings with settings
\* that differ in at least one field advances it by exactly one, and no
\* other step changes it.
C8_GenerationCounts ==
  [][IF UpdateSettingsCalled /\ lastOp'.arg # NullSettings
          /\ SettingsDiffer(lastOp'.arg, settings)
       THEN settingsVersion' = settingsVersion + 1
       ELSE settingsVersion' = settingsVersion]_vars

C8_Witness ==
  /\ lastOp.at = calls /\ lastOp.ret
  /\ Cardinality(DifferingFields(lastOp.arg, lastOp.prev)) >= 2
  /\ settingsVersion = 1

C10_ListenersNotified ==
  [][(UpdateSettingsCalled /\ lastOp'.ret) =>
       \A l \in Listeners :
         IF \E i \in 1..Len(onSettingsChangeListeners) :
              onSettingsChangeListeners[i] = l
           THEN notified'[l] > notified[l]
           ELSE notified'[l] = notified[l]]_vars

\* This step makes caller c call maybeLogin: a call of Auth.Login or of a
\* proxied operation, or a retry or restart of a proxied invocation.
Acquires(c) == ops'[c].pc = "login" /\ ops'[c] # ops[c]

Incomplete(st) == \E k \in SETTING_NAME_KEYS : st[k] \in {Undefined, ""}

\* This step starts no login and advances none: every login record is as it
\* was (but for the history of its reuse), or was dropped because nothing
\* refers to it any more.
NoLoginTouched ==
  /\ Len(logins') = Len(logins)
  /\ \A j \in 1..Len(logins) :
       \/ logins'[j] = DroppedLogin
       \/ [logins'[j] EXCEPT !.reused = FALSE] = [logins[j] EXCEPT !.reused = FALSE]

\* C11: maybeLogin called with no cached login and a setting unset or empty
\* starts no login and changes neither the cache, the settings, the
\* generation nor any chain, and Auth.Login then resolves with missing-config;
\* called with no cached login and complete settings it starts one login
\* under those settings and caches it.
C11_MissingConfigNoEffect ==
  [][\A c \in Callers :
       /\ (Acquires(c) /\ sidPromise = NoPromise /\ Incomplete(settings)) =>
            /\ ops'[c].job = 0
            /\ LoginOutcome(logins', ops'[c].job) = ConnFailure("missing-config", NoError)
            /\ NoLoginTouched
            /\ UNCHANGED <<settings, settingsVersion, sidPromise, logouts>>
       /\ (ops[c].kind = "login" /\ ops[c].pc = "login" /\ ops[c].job = 0
             /\ ops'[c] # ops[c]) =>
            /\ ops'[c].pc = "done"
            /\ ops'[c].result = ConnFailure("missing-config", NoError)
            /\ NoLoginTouched
            /\ UNCHANGED <<settings, settingsVersion, sidPromise, logouts>>
       /\ (Acquires(c) /\ sidPromise = NoPromise /\ ~Incomplete(settings)) =>
            /\ Len(logins') = Len(logins) + 1
            /\ sidPromise' = Len(logins')
            /\ ops'[c].job = sidPromise'
            /\ logins'[sidPromise'] = NewLogin(settings, settingsVersion)]_vars

C11_Witness ==
  /\ \E c \in Callers :
       /\ ops[c].kind = "login" /\ ops[c].pc = "done"
       /\ ops[c].result = ConnFailure("missing-config", NoError)
  /\ \E c \in Callers :
       /\ ops[c].kind = "login" /\ ops[c].pc = "login" /\ ops[c].job # 0
  /\ lastOp.ret /\ lastOp.prev.passwd = "" /\ settingsVersion = 1

\* This step is a call of Auth.Logout by caller c.
LogoutCalled(c) ==
  /\ ops[c].pc \in {"idle", "done"} /\ ops'[c].kind = "logout"
  /\ calls' = calls + 1 /\ lastOp' = lastOp /\ subscriptions' = subscriptions
  /\ \A d \in Callers \ {c} : ops'[d] = ops[d]

\* C12: maybeLogout called with no cached login returns 'not-logged-in' at
\* once, starts no logout chain and no login, and changes neither the cache,
\* the settings nor the generation, whether the settings are complete or not.
C12_NotLoggedInNoEffect ==
  [][((\E c \in Callers : LogoutCalled(c)) /\ sidPromise = NoPromise) =>
       /\ \E c \in Callers : /\ LogoutCalled(c)
                              /\ ops'[c].pc = "done"
                              /\ ops'[c].result = NotLoggedIn
       /\ NoLoginTouched
       /\ UNCHANGED <<settings, settingsVersion, sidPromise, logouts, clears,
                      logoutAttempts, listenerVars>>]_vars

C12_Witness ==
  \E c \in Callers :
    /\ ops[c].kind = "logout" /\ ops[c].pc = "done"
    /\ ops[c].result = NotLoggedIn
    /\ Incomplete(settings)

\* This step calls maybeLogout: from Auth.Logout, or from an accepted
\* updateSettings.
ReleaseCalled ==
  \/ UpdateSettingsCalled /\ lastOp'.ret
  \/ \E c \in Callers : LogoutCalled(c)

\* C13 (as claimed): maybeLogout called with a cached login empties the cache
\* and waits for that login; when the login has settled, a logout call with
\* its session id is issued if it succeeded, and none if it failed; a logout
\* call is issued only from such a wait.
C13_ReleaseLogsOut ==
  [][\A j \in Jobs :
       /\ (ReleaseCalled /\ sidPromise = j) =>
            /\ sidPromise' = NoPromise
            /\ logouts'[j].stage = "wait"
       /\ (logouts[j].stage = "wait" /\ logouts'[j] # logouts[j]) =>
            IF logins[j].out.t = "success"
              THEN /\ logouts'[j].stage = "net"
                   /\ logouts'[j].sid = logins[j].out.sid
              ELSE logouts'[j].stage = "done"
       /\ (logouts'[j].stage = "net" /\ logouts[j].stage # "net") =>
            logouts[j].stage = "wait"]_vars

\* C14: a step of a logout chain (the stashed login settling for it, or its
\* logout call settling, with any outcome) changes neither the cache, the
\* settings, the generation nor any login, and no operation but the
\* Auth.Logout call that holds its promise, which completes; the cache goes
\* from empty to a login only when a caller acquires; and a proxied call made
\* with the cache empty and complete settings starts a fresh login under the
\* current settings, wherever the logout chains stand.
C14_LogoutOutcomeInert ==
  [][/\ \A j \in Jobs :
          (logouts[j].stage \in {"wait", "net"} /\ logouts'[j] # logouts[j]) =>
            /\ NoLoginTouched
            /\ UNCHANGED <<settings, settingsVersion, sidPromise, clears>>
            /\ \A c \in Callers :
                 ops'[c] # ops[c] =>
                   /\ c = logouts[j].owner
                   /\ ops[c].kind = "logout" /\ ops'[c].pc = "done"
     /\ (sidPromise = NoPromise /\ sidPromise' # NoPromise) =>
          \E c \in Callers : Acquires(c) /\ ops'[c].job = sidPromise'
     /\ \A c \in Callers :
          (ops[c].pc \in {"idle", "done"} /\ ops'[c].kind = "proxy" /\ Acquires(c)
             /\ sidPromise = NoPromise /\ isFullyConfigured(settings)) =>
            /\ sidPromise' = Len(logins) + 1
            /\ ops'[c].job = sidPromise'
            /\ logins'[sidPromise'] = NewLogin(settings, settingsVersion)
            /\ logouts' = logouts]_vars

C14_Witness ==
  /\ \E c \in Callers :
       /\ ops[c].kind = "logout" /\ ops[c].pc = "done"
       /\ ops[c].result.t = "connection-failure"
  /\ \E c \in Callers :
       /\ ops[c].kind = "proxy" /\ ops[c].pc = "login"
       /\ sidPromise # NoPromise /\ ops[c].job = sidPromise
       /\ logins[sidPromise].stage = "query"

\* The logins that are pending, and those that are pending or ended in a
\* session.
PendingLogins == {j \in 1..Len(logins) : logins[j].stage # "done"}

Sessions == PendingLogins \cup {j \in 1..Len(logins) : logins[j].out.t = "success"}

\* C15 (as claimed): at no moment are two logins pending, nor are there two
\* logins that are pending or ended in a session not yet logged out.
C15_OneSessionAtATime == Cardinality(PendingLogins) <= 1 /\ Cardinality(Sessions) <= 1

\* C15 (amended): the cache holds at most one login, the one started last;
\* every login started was cached, and a later login is started only after
\* the cache was emptied: the logins started are the cache clears plus the
\* login cached, if any. Logins the cache dropped may still be pending.
C15_OneCachedLogin ==
  /\ sidPromise # NoPromise => sidPromise = Len(logins)
  /\ Len(logins) = clears + Cleared(sidPromise)

C15_Witness ==
  /\ Cardinality(PendingLogins) = 2
  /\ sidPromise \in PendingLogins
  /\ clears = 2 /\ settingsVersion = 0
  /\ \A c \in Callers : ops[c].pc = "login" /\ ops[c].retries = 1
\* ---------------------------------------------- properties: quickconnect
\* The candidates probed at a control host, in the order they were probed.
RECURSIVE ConnectionsOf(_)
ConnectionsOf(probes) ==
  IF probes = <<>> THEN <<>>
  ELSE <<Head(probes).connection>> \o ConnectionsOf(Tail(probes))

ProbedAt(controlHost) ==
  ConnectionsOf(SelectSeq(attempts.probed, LAMBDA p : p.controlHost = controlHost))

\* C16: resolution returns the first passing candidate of the first control
\* host that has one: a passing probe response ends the resolution at once,
\* the control hosts queried are an initial part of the delivered list, every
\* one before the last failed, and the result is the candidate probed last,
\* at the host queried last, whose server info is valid.
C16_FirstPassingWins ==
  /\ attempts.passes <= 1
  /\ (attempts.passes = 1) <=> (resolution.pc = "resolved")
  /\ resolution.pc = "resolved" =>
       /\ attempts.queried = SubSeq(attempts.sites, 1, Len(attempts.queried))
       /\ Len(attempts.errors) = Len(attempts.queried) - 1
       /\ isValidServerInfo(attempts.info)
       /\ Last(attempts.probed) = [controlHost |-> Last(attempts.queried),
                                   connection |-> resolution.result]

\* The second of three control hosts wins with its second candidate after
\* the first answered with an error payload; a candidate and a control host
\* are left untried.
C16_Witness ==
  /\ resolution.pc = "resolved"
  /\ Len(attempts.sites) = 3
  /\ Len(attempts.queried) = 2
  /\ attempts.errors = <<ErrorPayload.errinfo>>
  /\ Len(ProbedAt(resolution.controlHost)) = 2
  /\ resolution.connections # <<>>
  /\ resolution.hosts # <<>>

\* C17: the resolution becomes resolved only when the probe of the current
\* candidate is answered with success and with the hash of the serverID the
\* current control host advertised, and the result is that candidate.
C17_OnlyVerifiedCandidate ==
  [][resolution'.pc = "resolved" /\ resolution.pc # "resolved" =>
       /\ resolution.pc = "probe"
       /\ attempts'.passes = attempts.passes + 1
       /\ resolution.serverIdHash = md5(attempts.info.serverID)
       /\ resolution'.result = resolution.connection]_vars

\* The relay candidate of the rich server info is returned after every
\* direct candidate was refused.
C17_Witness ==
  /\ resolution.pc = "resolved"
  /\ attempts.info = RichInfo
  /\ resolution.result.type = "TUN"
  /\ Len(attempts.probed) > 1
  /\ attempts.passes = 1

C18_GroupOrder == <<"LAN_IPV4", "LAN_IPV6", "FQDN", "DDNS", "WAN_IPV6", "WAN_IPV4", "TUN">>

C18_Rank(type) == CHOOSE i \in DOMAIN C18_GroupOrder : C18_GroupOrder[i] = type

\* The candidates in the order generateConnectionCandidates pushed them.
Generated ==
  MapBracketed(Pushes(resolution.quickConnectId, PROTOCOL_PORTS[resolution.protocol],
                      attempts.info, resolution.tunnel))

\* The probes made at the current control host followed by those still to make.
ProbeSequence == ProbedAt(resolution.controlHost) \o resolution.connections

\* C18: while a valid server info's candidates are probed, the probes made and
\* still to make are all the generated candidates, their types never step
\* back in the order LAN_IPV4, LAN_IPV6, FQDN, DDNS, WAN_IPV6, WAN_IPV4, TUN,
\* and two candidates of one type keep their order of generation.
C18_ProbeOrder ==
  resolution.pc = "probe" =>
    LET P == ProbeSequence
        G == Generated
        Pos(c) == CHOOSE k \in DOMAIN G : G[k] = c
    IN /\ Len(P) = Len(G)
       /\ \A k \in DOMAIN G : \E i \in DOMAIN P : P[i] = G[k]
       /\ \A i, j \in DOMAIN P :
            i < j => /\ C18_Rank(P[i].type) <= C18_Rank(P[j].type)
                     /\ P[i].type = P[j].type => Pos(P[i]) < Pos(P[j])

\* Every candidate of the rich server info has been probed, the relay last.
C18_Witness ==
  /\ resolution.pc = "probe"
  /\ attempts.info = RichInfo
  /\ resolution.tunnel = "include"
  /\ resolution.connections = <<>>
  /\ resolution.connection.type = "TUN"
  /\ \A type \in ConnectionType :
       \E i \in DOMAIN attempts.probed : attempts.probed[i].connection.type = type

\* C19: for every valid server info delivered, a TUN candidate is generated
\* exactly when the info has a relay address and a relay port and the mode is
\* include or require, and another candidate only when the mode is include
\* or exclude; with require nothing but TUN is ever probed, with exclude TUN
\* is never probed.
C19_TunnelModeGates ==
  /\ isValidServerInfo(attempts.info) =>
       LET candidates ==
             generateConnectionCandidates(resolution.quickConnectId,
                                          PROTOCOL_PORTS[resolution.protocol],
                                          attempts.info, resolution.tunnel)
       IN /\ (candidates["TUN"] # <<>>) <=>
               /\ Present(attempts.info.relay_ip)
               /\ Truthy(attempts.info.relay_port)
               /\ resolution.tunnel \in {"include", "require"}
          /\ (\E type \in ConnectionType \ {"TUN"} : candidates[type] # <<>>) =>
               resolution.tunnel \in {"include", "exclude"}
  /\ resolution.pc = "probe" =>
       /\ (\E i \in DOMAIN ProbeSequence : ProbeSequence[i].type = "TUN") <=>
            /\ Present(attempts.info.relay_ip)
            /\ Truthy(attempts.info.relay_port)
            /\ resolution.tunnel \in {"include", "require"}
       /\ (\E i \in DOMAIN ProbeSequence : ProbeSequence[i].type # "TUN") =>
            resolution.tunnel \in {"include", "exclude"}
  /\ resolution.tunnel = "require" =>
       \A i \in DOMAIN attempts.probed : attempts.probed[i].connection.type = "TUN"
  /\ resolution.tunnel = "exclude" =>
       \A i \in DOMAIN attempts.probed : attempts.probed[i].connection.type # "TUN"

\* With mode require the rich server info, which has direct addresses, is
\* resolved to its relay by the only probe made.
C19_Witness ==
  /\ resolution.tunnel = "require"
  /\ attempts.info = RichInfo
  /\ resolution.pc = "resolved"
  /\ Len(attempts.probed) = 1
  /\ resolution.result.type = "TUN"

CandidatesFor(info) ==
  formattedConnections(resolution.quickConnectId, resolution.protocol, info,
                       resolution.tunnel)

\* This step counts the current control host as failed: its error is kept,
\* and the next control host is queried, or none is left and the resolution
\* is rejected.
HostFailed ==
  /\ Len(attempts'.errors) = Len(attempts.errors) + 1
  /\ IF resolution.hosts # <<>>
       THEN /\ resolution'.pc = "host"
            /\ resolution'.controlHost = Head(resolution.hosts)
            /\ attempts'.queried = Append(attempts.queried, Head(resolution.hosts))
       ELSE resolution'.pc = "rejected"

\* C21: a control host whose answer is an error payload or an invalid server
\* info, whose candidate list is empty, or whose last candidate did not pass,
\* is counted as failed and the next control host is queried; the resolution
\* is rejected because of a control host only when none is left to try.
C21_FailedHostAdvances ==
  [][/\ (/\ resolution.pc = "host" /\ resolution' # resolution
         /\ IF attempts'.info.errinfo # Undefined THEN TRUE
            ELSE IF ~isValidServerInfo(attempts'.info) THEN TRUE
            ELSE CandidatesFor(attempts'.info) = <<>>) => HostFailed
     /\ (/\ resolution.pc = "probe" /\ resolution' # resolution
         /\ resolution.connections = <<>>
         /\ attempts'.passes = attempts.passes) => HostFailed
     /\ (resolution'.pc = "rejected" /\ resolution.pc # "rejected" /\ attempts.listed) =>
          resolution.hosts = <<>>]_vars

\* The third control host is probed after the first had no candidate to
\* probe and the second delivered an invalid server info.
C21_Witness ==
  /\ resolution.pc = "probe"
  /\ Len(attempts.queried) = 3
  /\ attempts.errors = <<"no values were given for series",
                         "server info returned is invalid!">>

\* The external port of a server info is present, not zero, a number, and
\* not the port.
C22_DistinctExtPort(info) ==
  /\ info.ext_port.t # "undefined"
  /\ ~(info.ext_port.t = "number" /\ info.ext_port.n = 0)
  /\ ~(info.ext_port.t = "string" /\ info.ext_port.s = "0")
  /\ ToNumber(info.ext_port) # NaN
  /\ ToNumber(info.ext_port) # ToNumber(info.port)

\* C22: the candidates other than the relay are one per host at the port,
\* and, exactly when the external port is present, not zero, a number and
\* not the port, one more per host at the external port.
C22_ExtPortRule ==
  LET info == attempts.info
      P == ProbeSequence
      direct == {i \in DOMAIN P : P[i].type # "TUN"}
      hosts == {P[i].hostname : i \in direct}
      At(hostname, port) ==
        Cardinality({i \in direct : P[i].hostname = hostname /\ P[i].port = port})
  IN resolution.pc = "probe" =>
       /\ \A i \in direct :
            P[i].port \in {ToNumber(info.port), ToNumber(info.ext_port)}
       /\ \A hostname \in hosts : At(hostname, ToNumber(info.port)) = 1
       /\ Cardinality(direct) =
            Cardinality(hosts) * (IF C22_DistinctExtPort(info) THEN 2 ELSE 1)
       /\ C22_DistinctExtPort(info) =>
            \A hostname \in hosts : At(hostname, ToNumber(info.ext_port)) = 1

\* Port "5000" and external port "6000": each of the seven hosts of the rich
\* server info has been probed at both.
C22_Witness ==
  /\ resolution.pc = "probe"
  /\ attempts.info = RichInfo
  /\ resolution.tunnel = "exclude"
  /\ resolution.connections = <<>>
  /\ Cardinality({i \in DOMAIN attempts.probed :
                    attempts.probed[i].connection.port = 6000}) = 7
  /\ Cardinality({i \in DOMAIN attempts.probed :
                    attempts.probed[i].connection.port = 5000}) = 7

\* A server info with exactly one interface, whose address is a private
\* IPv4 address, port 5000, no distinct external port and no relay fields.
C23_OnePrivateInterface(info) ==
  /\ Len(info.interface) = 1
  /\ isIpv4(info.interface[1].ip) /\ isPrivate(info.interface[1].ip)
  /\ ~isLoopback(info.interface[1].ip)
  /\ info.interface[1].ipv6 = <<>>
  /\ ToNumber(info.port) = 5000
  /\ ~C22_DistinctExtPort(info)
  /\ info.relay_ip = Undefined /\ info.relay_port = Undef

C23_Count(type) ==
  Cardinality({i \in DOMAIN ProbeSequence : ProbeSequence[i].type = type})

\* C23: for such a server info and mode include the candidates are two
\* LAN_IPV4 candidates, the interface address and the external address every
\* valid server info has, and nothing else: no TUN candidate.
C23_TwoLanCandidates ==
  (/\ resolution.pc = "probe" /\ resolution.tunnel = "include"
   /\ C23_OnePrivateInterface(attempts.info)) =>
     /\ C23_Count("LAN_IPV4") = 2
     /\ C23_Count("TUN") = 0
     /\ Len(ProbeSequence) = 2
     /\ {ProbeSequence[i].hostname : i \in DOMAIN ProbeSequence} =
          {attempts.info.interface[1].ip, attempts.info.externalIp}

C23_Witness ==
  /\ resolution.pc = "probe" /\ resolution.tunnel = "include"
  /\ attempts.info = PlainInfo
  /\ C23_OnePrivateInterface(attempts.info)
  /\ resolution.connections = <<>>
  /\ Len(attempts.probed) = 2

\* C23 as stated: exactly one LAN_IPV4 candidate and no TUN candidate.
C23_OneLanCandidate ==
  (/\ resolution.pc = "probe" /\ resolution.tunnel = "include"
   /\ C23_OnePrivateInterface(attempts.info)) =>
     /\ C23_Count("LAN_IPV4") = 1
     /\ C23_Count("TUN") = 0

\* C26: at most one request of a resolution is on the network at any moment,
\* and it is the one the chain is waiting for: the control list, the current
\* control host's tunnel request, or the current candidate's probe.
C26_OneRequestInFlight ==
  /\ Cardinality(resolution.inFlight) <= 1
  /\ resolution.inFlight =
       IF resolution.pc = "list"
         THEN {Request("getControlList", "", NoConnection)}
       ELSE IF resolution.pc = "host"
         THEN {Request("requestTunnel", resolution.controlHost, NoConnection)}
       ELSE IF resolution.pc = "probe"
         THEN {Request("pingPong", resolution.controlHost, resolution.connection)}
       ELSE {}

\* The second control host's third candidate is being probed, alone.
C26_Witness ==
  /\ resolution.pc = "probe"
  /\ Len(attempts.queried) = 2
  /\ Len(ProbedAt(resolution.controlHost)) = 3
  /\ resolution.connections # <<>>
  /\ resolution.hosts # <<>>
  /\ Cardinality(resolution.inFlight) = 1

\* -------------------------------------------------- properties: functions
\* C24: a rejection is mapped to a connection failure whose type is
\* probable-wrong-protocol for a response of status 400, else
\* probable-wrong-url-or-no-connection-or-cert-error for the message
\* 'Network Error', else timeout for a message holding 'timeout of <digits>ms
\* exceeded', else unknown, null included; never missing-config, and the
\* chain resolves.
C24_RejectionMapping ==
  (rejection.pc = "settled" /\ rejection.settled.t = "rejected") =>
    LET error == rejection.settled.err IN
    /\ rejection.result.t = "connection-failure"
    /\ rejection.result.err = error
    /\ rejection.result.type # "missing-config"
    /\ rejection.result.type =
         IF error = NullError THEN "unknown"
         ELSE IF error.status = 400 THEN "probable-wrong-protocol"
         ELSE IF error.message = "Network Error"
           THEN "probable-wrong-url-or-no-connection-or-cert-error"
         ELSE IF error.message \in {"timeout of 60000ms exceeded",
                                    "Error: timeout of 5ms exceeded (retry)"}
           THEN "timeout"
         ELSE "unknown"

\* A response of status 400 whose message is 'Network Error' was mapped.
C24_Witness ==
  /\ rejection.pc = "settled"
  /\ rejection.settled = Rejected(AxiosError(400, "Network Error"))
  /\ rejection.result.type = "probable-wrong-protocol"

\* C25: makePromise is called with the values in list order, each call after
\* the first only when all calls before it have failed; the series resolves
\* with what the first successful attempt resolved with, no later value
\* being attempted, and it rejects only when the attempt for the last value
\* has failed.
C25_SeriesInOrder ==
  /\ seriesCall.made = SubSeq(seriesCall.values, 1, Len(seriesCall.made))
  /\ seriesCall.pc = "pending" =>
       /\ seriesCall.failed = Len(seriesCall.made) - 1
       /\ seriesCall.inFlight = {Len(seriesCall.made)}
       /\ seriesCall.succeeded = Undefined
  /\ (seriesCall.pc = "resolved" /\ seriesCall.values # <<>>) =>
       /\ seriesCall.failed = Len(seriesCall.made) - 1
       /\ seriesCall.result = seriesCall.succeeded
       /\ seriesCall.inFlight = {}
  /\ seriesCall.succeeded # Undefined => seriesCall.pc = "resolved"
  /\ (seriesCall.pc = "rejected" /\ seriesCall.values # <<>>) =>
       /\ Len(seriesCall.made) = Len(seriesCall.values)
       /\ seriesCall.failed = Len(seriesCall.values)
       /\ seriesCall.inFlight = {}

\* The second of three values succeeded; the third was not attempted.
C25_Witness ==
  /\ seriesCall.pc = "resolved"
  /\ seriesCall.values = <<"a", "b", "a">>
  /\ seriesCall.made = <<"a", "b">>
  /\ seriesCall.failed = 1
  /\ seriesCall.result = "u2"

\* C27: for an empty list makePromise is never called, and the series rejects
\* at once without a default and resolves at once with the default
\* otherwise; for a non-empty list the default is never the result, and the
\* series rejects when every attempt has failed, default or not.
C27_DefaultOnlyWhenEmpty ==
  /\ (seriesCall.pc # "none" /\ seriesCall.values = <<>>) =>
       /\ seriesCall.made = <<>>
       /\ IF seriesCall.defaultValue = Undefined
            THEN /\ seriesCall.pc = "rejected"
                 /\ seriesCall.error = "no values were given for series"
            ELSE /\ seriesCall.pc = "resolved"
                 /\ seriesCall.result = seriesCall.defaultValue
  /\ seriesCall.values # <<>> =>
       /\ seriesCall.pc = "resolved" => seriesCall.result \in SeriesOutcomes
       /\ seriesCall.failed = Len(seriesCall.values) =>
            seriesCall.pc = "rejected" /\ seriesCall.error \in SeriesErrors

\* Two values have failed and the series is rejected although it was given a
\* default.
C27_Witness ==
  /\ seriesCall.pc = "rejected"
  /\ seriesCall.defaultValue = "d"
  /\ Len(seriesCall.values) = 2
  /\ seriesCall.failed = 2

\* ------------------------------------------------- properties: generations
InProgress(c) == ops[c].kind = "proxy" /\ ops[c].pc \notin {"idle", "done"}

\* C28: an invocation in progress has been restarted for stale settings at
\* most as often as the generation has advanced since it was called; no
\* invocation has been restarted more often than the generation has ever
\* advanced, so never when the settings never changed.
C28_RestartsBoundedByChanges ==
  \A c \in Callers :
    /\ InProgress(c) => ops[c].restarts <= settingsVersion - ops[c].startVersion
    /\ ops[c].restarts <= settingsVersion

\* An invocation called under generation 0 is in its second restart.
C28_Witness ==
  \E c \in Callers :
    /\ InProgress(c) /\ ops[c].startVersion = 0 /\ ops[c].restarts = 2
    /\ settingsVersion = 2

\* C30: a cached login was started under the current generation with the
\* current settings; the cache is filled only by maybeLogin starting a login
\* with the settings and generation of that moment, and a step that advances
\* the generation leaves the cache empty.
C30_CachedLoginIsCurrent ==
  /\ [](sidPromise # NoPromise =>
          /\ logins[sidPromise].settings = settings
          /\ logins[sidPromise].generation = settingsVersion)
  /\ [][
       /\ (sidPromise' \notin {sidPromise, NoPromise}) =>
            /\ sidPromise' = Len(logins) + 1
            /\ logins'[sidPromise'] = NewLogin(settings', settingsVersion')
            /\ settingsVersion' = settingsVersion
       /\ (settingsVersion' # settingsVersion) =>
            /\ settingsVersion' = settingsVersion + 1
            /\ sidPromise' = NoPromise
            /\ lastOp'.ret
     ]_vars

\* A login is cached under generation 2, after an earlier generation's login
\* was cached and cleared.
C30_Witness ==
  /\ sidPromise # NoPromise
  /\ settingsVersion = 2
  /\ logins[sidPromise].generation = 2
  /\ clears >= 1

\* ------------------------------------------------- termination of a call
\* The client after updateSettings(null) was called MaxCalls - 2 times: each
\* returned false and changed nothing, and two calls remain. Two calls start
\* at most MaxWork logins and invocations together, so no network operation
\* of the run is left unfinished for lack of room.
LiveInit ==
  /\ settings \in ApiClientSettings
  /\ settingsVersion = 0
  /\ sidPromise = NoPromise
  /\ onSettingsChangeListeners = <<>>
  /\ subscriptions = <<>>
  /\ logins = <<>>
  /\ logouts = [j \in Jobs |-> NoLogout]
  /\ ops = [c \in Callers |-> IdleOp]
  /\ clears = 0
  /\ logoutAttempts = 0
  /\ calls = MaxCalls - 2
  /\ notified = [l \in Listeners |-> 0]
  /\ lastOp = [at |-> MaxCalls - 2, ret |-> FALSE, arg |-> NullSettings,
               prev |-> settings]
  /\ resolution = NoResolution /\ attempts = NoAttempts
  /\ seriesCall = NoSeries /\ rejection = NoRejection

\* Every network operation eventually resolves or rejects, and a callback
\* chained on a settled promise eventually runs.
NetworkCompletes ==
  /\ \A c \in Callers : WF_vars(LoginResolvesForProxy(c))
  /\ \A c \in Callers : WF_vars(FnSettles(c))
  /\ \A j \in Jobs : WF_vars(InfoQuerySettles(j))
  /\ \A j \in Jobs : WF_vars(AuthLoginSettles(j))

LiveSpec == LiveInit /\ [][Next]_vars /\ NetworkCompletes

\* C29: when every network operation eventually completes, a proxied
\* invocation in progress eventually returns a result to its caller,
\* whatever other invocations, logins, logouts and settings updates do.
C29_InvocationReturns ==
  \A c \in Callers :
    InProgress(c) ~> (ops[c].kind = "proxy" /\ ops[c].pc = "done")

\* An invocation has returned after a restart for stale settings and a
\* session-recovery retry.
C29_Witness ==
  \E c \in Callers :
    /\ ops[c].kind = "proxy" /\ ops[c].pc = "done"
    /\ ops[c].restarts >= 1 /\ ops[c].retries >= 1

\* ------------------------------------------ properties: the wrapped call
\* This step is caller c's invocation calling fn with the outcome of the
\* login it waited for.
CallsFn(c) == ops[c].kind = "proxy" /\ ops[c].pc = "login" /\ ops'[c].pc = "call"

\* C31: when fn is called, the session id passed is the one issued to a
\* login that captured the settings current at that moment and was started
\* under the current generation, and the base URL passed is that of the same
\* settings.
C31_CallUsesCurrentSession ==
  [][\A c \in Callers :
       CallsFn(c) =>
         /\ ops[c].job # 0
         /\ logins[ops[c].job].out.t = "success"
         /\ ops'[c].callSid = logins[ops[c].job].out.sid
         /\ logins[ops[c].job].settings = settings'
         /\ logins[ops[c].job].generation = settingsVersion'
         /\ ops'[c].callUrl = settings'.baseUrl
         /\ ops'[c].callUrl = logins[ops[c].job].settings.baseUrl]_vars

\* fn is being called under generation 2 by an invocation that was restarted
\* because the settings changed under it.
C31_Witness ==
  \E c \in Callers :
    /\ ops[c].kind = "proxy" /\ ops[c].pc = "call"
    /\ ops[c].restarts >= 1 /\ settingsVersion = 2
    /\ ops[c].callUrl = settings.baseUrl

\* ------------------------------------------- properties: a failed login
\* A login outcome that session recovery does not act on: a rejection, or a
\* remote failure with a code other than 105 and 106.
StickyFailure(out) ==
  \/ out.t = "rejected"
  \/ /\ out.t = "failure"
     /\ out.code \notin {NO_PERMISSIONS_ERROR_CODE, SESSION_TIMEOUT_ERROR_CODE}

FnRejects(c) ==
  /\ ops[c].kind = "proxy" /\ ops[c].pc = "call"
  /\ ops'[c] # ops[c] /\ ops'[c].seen.t = "rejected"

\* C33: when the wrapped call rejects, the invocation returns the rejection
\* as handleRejection maps it, in that step, whether or not the generation
\* advanced during the call: it is neither restarted nor retried, fn is not
\* called again, and the cache, the settings and every login and logout
\* chain are left as they were.
C33_RejectedCallReturns ==
  [][\A c \in Callers :
       FnRejects(c) =>
         /\ ops'[c].pc = "done"
         /\ ops'[c].result = handleRejection(ops'[c].seen.err)
         /\ ops'[c].result.t = "connection-failure"
         /\ ops'[c].restarts = ops[c].restarts
         /\ ops'[c].retries = ops[c].retries
         /\ ops'[c].fnCalls = ops[c].fnCalls
         /\ ops'[c].returnedStale = (ops[c].versionAtInit # settingsVersion)
         /\ NoLoginTouched
         /\ UNCHANGED <<settings, settingsVersion, sidPromise, logouts>>]_vars

\* An invocation has returned a rejected call's failure although the
\* settings had changed while the call was in flight.
C33_Witness ==
  \E c \in Callers :
    /\ ops[c].kind = "proxy" /\ ops[c].pc = "done"
    /\ ops[c].returnedStale /\ ops[c].seen.t = "rejected"
    /\ ops[c].result.t = "connection-failure"
    /\ ops[c].restarts = 0 /\ ops[c].fnCalls = 1

\* ------------------------------------------ properties: session recovery
\* This step is caller c's invocation clearing the cache and retrying.
Recovers(c) == ops[c].kind = "proxy" /\ ops'[c].retries = ops[c].retries + 1

\* This step is caller c's operation starting a login.
StartsLogin(c) ==
  /\ Len(logins') = Len(logins) + 1
  /\ ops'[c] # ops[c] /\ ops'[c].pc = "login" /\ ops'[c].job = Len(logins')

\* C34: an invocation that was never restarted for stale settings has
\* called fn at most twice and retried at most once, and a second call of
\* fn followed the retry; it starts a login only when it is called and when
\* it retries, so at most two; the retry starts a login of its own, in the
\* step that handles the failure, and the call made after the retry passes
\* the session id of that login.
C34_TwoCallsTwoLogins ==
  /\ [](\A c \in Callers :
          (ops[c].kind = "proxy" /\ ops[c].restarts = 0) =>
             /\ ops[c].fnCalls <= 2
             /\ ops[c].retries <= 1
             /\ ops[c].fnCalls = 2 => (ops[c].retries = 1 /\ ops[c].afterRetry = 1))
  /\ [][\A c \in Callers :
          /\ (StartsLogin(c) /\ ops'[c].kind = "proxy" /\ ops'[c].restarts = 0) =>
               \/ ops[c].pc \in {"idle", "done"} /\ ops'[c].retries = 0
               \/ Recovers(c)
          /\ (Recovers(c) /\ ops[c].restarts = 0) =>
               /\ StartsLogin(c)
               /\ ops[c].retries = 0
               /\ ops'[c].freshJob = Len(logins')
               /\ sidPromise' = Len(logins')
               /\ ops[c].seen.t = "failure" \/ ops'[c].seen.t = "failure"
          /\ (CallsFn(c) /\ ops[c].restarts = 0 /\ ops[c].retries = 1) =>
               /\ ops[c].job = ops[c].freshJob
               /\ ops'[c].callSid = logins[ops[c].freshJob].out.sid
               /\ ops'[c].callSid = ops[c].freshJob
     ]_vars

\* The only invocation ever made, under unchanged settings, has called fn
\* twice, the second time after a retry, with the session of the second of
\* the two logins it started.
C34_Witness ==
  \E c \in Callers :
    /\ ops[c].kind = "proxy" /\ ops[c].pc = "call" /\ ops[c].restarts = 0
    /\ ops[c].fnCalls = 2 /\ ops[c].retries = 1
    /\ settingsVersion = ops[c].startVersion
    /\ calls = 1 /\ Len(logins) = 2
    /\ ops[c].callSid = ops[c].freshJob /\ ops[c].freshJob = 2

\* C35: a recovery drops whatever login is cached at that moment, be it the
\* one the failed attempt used or a newer one, starts and caches a login of
\* its own, and starts no logout chain; a logout chain is only ever started
\* on the login that is cached, so a login dropped by a recovery is never
\* logged out.
C35_RecoveryDropsAnyLogin ==
  [][/\ \A c \in Callers :
          Recovers(c) =>
            /\ StartsLogin(c)
            /\ sidPromise' = Len(logins')
            /\ sidPromise' # sidPromise
            /\ clears' = clears + Cleared(sidPromise)
            /\ logouts' = logouts
            /\ \A j \in 1..Len(logins) :
                 \/ logins'[j] = DroppedLogin
                 \/ logins'[j] = logins[j]
     /\ \A j \in Jobs :
          (logouts[j].stage = "none" /\ logouts'[j].stage # "none") =>
            sidPromise = j /\ sidPromise' = NoPromise
    ]_vars

\* Two invocations used session 1 and both recovered from its expiry: two
\* fresh logins were started, and the later recovery dropped the login of
\* the earlier one while it was pending, without a logout.
C35_Witness ==
  /\ calls = 2 /\ Len(logins) = 3 /\ sidPromise = 3 /\ clears = 2
  /\ \A c \in Callers :
       /\ ops[c].kind = "proxy" /\ ops[c].pc = "login"
       /\ ops[c].retries = 1 /\ ops[c].fnCalls = 1 /\ ops[c].afterRetry = 0
  /\ \E c \in Callers : ops[c].job = 2
  /\ logins[2].stage # "done"
  /\ \A j \in Jobs : logouts[j].stage = "none"

\* ------------------------------------- properties: logout on new settings
\* The client as the accepted updateSettings call of this step has it when
\* it calls maybeLogout.
AtRelease ==
  [State EXCEPT !.settingsVersion = @ + 1, !.settings = lastOp'.arg,
                !.logoutAttempts = @ + 1]

\* C36: maybeLogout called by an accepted updateSettings with a login cached
\* and the new settings incomplete returns missing-config at once: the cache
\* is emptied, no logout chain is started on the login and no login is
\* touched; and a login that is not cached and has no logout chain never
\* gets one, so that login's session is never logged out.
C36_IncompleteSettingsSkipLogout ==
  [][/\ (/\ UpdateSettingsCalled /\ lastOp'.ret
         /\ sidPromise # NoPromise /\ Incomplete(lastOp'.arg)) =>
           /\ maybeLogout(AtRelease, 0).ret = ConnFailure("missing-config", NoError)
           /\ settings' = lastOp'.arg
           /\ sidPromise' = NoPromise
           /\ clears' = clears + 1
           /\ logouts' = logouts
           /\ logouts'[sidPromise].stage = "none"
           /\ NoLoginTouched
           /\ ops' = ops
     /\ \A j \in Jobs :
          (sidPromise # j /\ logouts[j].stage = "none") =>
            logouts'[j].stage = "none"
    ]_vars

\* The second call made was an updateSettings to incomplete settings while
\* the login the first call started was cached and pending: the cache is
\* empty and the login has no logout chain.
C36_Witness ==
  /\ calls = 2 /\ lastOp.at = 2 /\ lastOp.ret /\ Incomplete(settings)
  /\ sidPromise = NoPromise /\ clears = 1 /\ logoutAttempts = 1
  /\ Len(logins) = 1 /\ logins[1].stage # "done"
  /\ logouts[1].stage = "none"
  /\ \E c \in Callers : ops[c].pc = "login" /\ ops[c].job = 1

\* C37: the logout chain an accepted updateSettings starts on the cached
\* login, which was started with the settings before the change, holds the
\* base URL and session name of the new settings; when that login has
\* resolved with a session, the logout call is issued with that login's
\* session id and with the base URL and session name the chain holds.
C37_LogoutUsesNewSettings ==
  [][\A j \in Jobs :
       /\ (/\ UpdateSettingsCalled /\ lastOp'.ret
           /\ sidPromise = j /\ ~Incomplete(lastOp'.arg)) =>
             /\ logins[j].settings = lastOp'.prev
             /\ settings' = lastOp'.arg
             /\ logouts'[j].stage = "wait" /\ logouts'[j].owner = 0
             /\ logouts'[j].baseUrl = lastOp'.arg.baseUrl
             /\ logouts'[j].session = lastOp'.arg.session
       /\ (/\ logouts[j].stage = "wait" /\ logouts[j].owner = 0
           /\ logouts'[j].stage = "net") =>
             /\ logins[j].out.t = "success"
             /\ logouts'[j].sid = logins[j].out.sid
             /\ logouts'[j].baseUrl = logouts[j].baseUrl
             /\ logouts'[j].session = logouts[j].session
    ]_vars

\* The logout call for session 1, which was issued under the settings before
\* the change, is in flight to the base URL of the new settings, which is
\* another one.
C37_Witness ==
  /\ logouts[1].stage = "net" /\ logouts[1].owner = 0 /\ logouts[1].sid = 1
  /\ settingsVersion = 1 /\ lastOp.ret
  /\ logouts[1].baseUrl = lastOp.arg.baseUrl
  /\ logouts[1].baseUrl # lastOp.prev.baseUrl

\* ------------------------------------ properties: external-port candidates
\* The IPv4 addresses of a server info's interfaces that are candidates, and
\* the IPv6 entries of its interfaces that are.
InterfaceIps(info) ==
  {info.interface[i].ip : i \in DOMAIN info.interface} \ ({Undefined, ""} \cup {"127.0.0.1"})

InterfaceIpv6(info) ==
  {e \in UNION {{info.interface[i].ipv6[k] : k \in DOMAIN info.interface[i].ipv6} :
                  i \in DOMAIN info.interface} : Present(e.address)}

\* C38: when direct candidates are generated and the external port is
\* distinct, every interface address has its external-port candidate in the
\* WAN group of its family, also a private IPv4 address and a link-scope
\* IPv6 address, whose candidates at the port are in the LAN group; no
\* interface address has an external-port candidate in a LAN group, unless
\* it is also the external address.
C38_ExtPortVariantIsWan ==
  LET info == attempts.info
      P == ProbeSequence
      port == ToNumber(info.port)
      extPort == ToNumber(info.ext_port)
      Has(type, hostname, p) ==
        \E i \in DOMAIN P : P[i] = Candidate(type, hostname, p)
  IN (/\ resolution.pc = "probe" /\ resolution.tunnel # "require"
      /\ port # NaN /\ C22_DistinctExtPort(info)) =>
       /\ \A ip \in InterfaceIps(info) :
            /\ Has("WAN_IPV4", ip, extPort)
            /\ Has(IF isPrivate(ip) THEN "LAN_IPV4" ELSE "WAN_IPV4", ip, port)
            /\ ip # info.externalIp => ~Has("LAN_IPV4", ip, extPort)
       /\ \A e \in InterfaceIpv6(info) :
            /\ Has("WAN_IPV6", "[" \o e.address \o "]", extPort)
            /\ Has(IF e.scope = "link" THEN "LAN_IPV6" ELSE "WAN_IPV6",
                   "[" \o e.address \o "]", port)
            /\ ~Has("LAN_IPV6", "[" \o e.address \o "]", extPort)

\* The rich server info, port 5000 and external port 6000: the private
\* address 10.0.0.2 and the link-scope address fe80::2 are LAN candidates at
\* 5000 and WAN candidates at 6000.
C38_Witness ==
  /\ resolution.pc = "probe" /\ attempts.info = RichInfo
  /\ resolution.tunnel = "include"
  /\ \E i \in DOMAIN ProbeSequence :
       ProbeSequence[i] = Candidate("WAN_IPV4", "10.0.0.2", 6000)
  /\ \E i \in DOMAIN ProbeSequence :
       ProbeSequence[i] = Candidate("LAN_IPV4", "10.0.0.2", 5000)
  /\ \E i \in DOMAIN ProbeSequence :
       ProbeSequence[i] = Candidate("WAN_IPV6", "[fe80::2]", 6000)
  /\ \E i \in DOMAIN ProbeSequence :
       ProbeSequence[i] = Candidate("LAN_IPV6", "[fe80::2]", 5000)

\* ------------------------------------------ properties: the login version
\* C39: the version maybeLogin passes to Auth.Login is 4 when Info.Query
\* succeeded and advertises a maxVersion of at least 4, and 1 in every other
\* case, a failure response of Info.Query included; a login that resolves
\* with a success carries isLegacyLogin, true exactly when that version was
\* 1, and a login that resolves otherwise carries the response as it came.
C39_LoginVersionChoice ==
  [][\A j \in Jobs :
       /\ (/\ j <= Len(logins) /\ logins[j].stage = "query"
           /\ logins'[j].stage = "login") =>
             /\ logins'[j].version \in {1, 4}
             /\ logins'[j].version = 4 <=> logins'[j].advertised >= 4
       /\ (/\ j <= Len(logins) /\ logins[j].stage = "login"
           /\ logins'[j].stage = "done" /\ logins'[j] # DroppedLogin) =>
             IF logins'[j].out.t = "success"
               THEN /\ logins'[j].out.legacy = (logins[j].version = 1)
                    /\ logins'[j].out.sid = j
               ELSE logins'[j].out \in {Failure(code) : code \in ErrorCodes}
                                        \cup {Rejected(e) : e \in RejectErrors}
    ]_vars

\* One login resolved as a legacy login; another, for which Info.Query
\* advertised version 4, is being made with version 4.
C39_Witness ==
  /\ \E j \in 1..Len(logins) :
       logins[j].out.t = "success" /\ logins[j].out.legacy
  /\ \E k \in 1..Len(logins) :
       logins[k].stage = "login" /\ logins[k].advertised = 4 /\ logins[k].version = 4

====
